---- MODULE Spec2Model ----
(***************************************************************************)
(* Vendor security assessment: evidence-to-question mapping                *)
(* (src/src/questionnaire_mapper.py) and risk aggregation                  *)
(* (src/src/risk_assessor.py).                                             *)
(*                                                                         *)
(* Texts are TLA+ strings; Len, SubSeq and \o act on them character by     *)
(* character, so str.lower(), str.split(), the `in` substring test and     *)
(* slicing are computed on the characters.  Similarity scores are exact    *)
(* rationals <<numerator, denominator>> in lowest terms: the fallback      *)
(* score is a quotient of two small integers, and a correctly rounded      *)
(* double quotient compares with the literals 0.6, 0.4 and a decimal       *)
(* threshold exactly as the rationals do.                                  *)
(***************************************************************************)
EXTENDS Integers, Sequences, FiniteSets, TLC

VARIABLES
  model,               \* QuestionnaireMapper.model: "None" or "encoder"
  hashseed,            \* the interpreter's string hash seed (fixes set order)
  questions,           \* the question list handed to the mapper
  evidence_library,    \* the evidence library handed to the mapper
  threshold,           \* the threshold of the last map call
  question_mappings,   \* QuestionnaireMapper.question_mappings
  mappings_arg,        \* the mapping sequence handed to RiskAssessor.assess
  vendor_metadata,     \* RiskAssessor.vendor_metadata
  web_search_results,  \* RiskAssessor.web_search_results
  risk_assessment,     \* RiskAssessor.risk_assessment
  call,                \* the last call: its arguments, locals and result
  earlier,             \* the objects that earlier calls returned
  agent,               \* the WebSearchAgent's fields
  pc                   \* position of the pipeline driver

vars == <<model, hashseed, questions, evidence_library, threshold,
          question_mappings, mappings_arg, vendor_metadata,
          web_search_results, risk_assessment, call, earlier, agent, pc>>

(***************************************************************************)
(* Bounds                                                                  *)
(***************************************************************************)
MaxQuestions == 3
MaxEvidence == 2
MaxRanked == 6
MaxBatch == 90

(***************************************************************************)
(* Strings                                                                 *)
(***************************************************************************)
Min(a, b) == IF a < b THEN a ELSE b

UpperChars == "ABCDEFGHIJKLMNOPQRSTUVWXYZ"
LowerChars == "abcdefghijklmnopqrstuvwxyz"

CharAt(s, i) == SubSeq(s, i, i)

Letters == 1..26

ToLower ==
  [c \in {CharAt(UpperChars, i) : i \in Letters} |->
     CharAt(LowerChars, CHOOSE i \in Letters : CharAt(UpperChars, i) = c)]

ToUpper ==
  [c \in {CharAt(LowerChars, i) : i \in Letters} |->
     CharAt(UpperChars, CHOOSE i \in Letters : CharAt(LowerChars, i) = c)]

\* one character of str.lower()
LowerChar(c) == IF c \in DOMAIN ToLower THEN ToLower[c] ELSE c

\* one character of str.upper()
UpperChar(c) == IF c \in DOMAIN ToUpper THEN ToUpper[c] ELSE c

IsLetter(c) == c \in DOMAIN ToLower \/ c \in DOMAIN ToUpper

\* str.lower(), halving the string so that the evaluation stays shallow
RECURSIVE Lower(_)
Lower(s) ==
  IF Len(s) = 0 THEN ""
  ELSE IF Len(s) = 1 THEN LowerChar(s)
       ELSE LET half == Len(s) \div 2
            IN Lower(SubSeq(s, 1, half)) \o Lower(SubSeq(s, half + 1, Len(s)))

\* the Python test `kw in s` on two strings
Contains(s, kw) ==
  \E i \in 1..(Len(s) - Len(kw) + 1) : SubSeq(s, i, i + Len(kw) - 1) = kw

\* s[:n]
Prefix(s, n) == SubSeq(s, 1, Min(n, Len(s)))

IsSpace(c) == c \in {" ", "\t", "\n"}

\* set(s.split()): the maximal runs of non-whitespace characters
Words(s) ==
  LET n == Len(s)
      Blank(i) == i < 1 \/ i > n \/ IsSpace(CharAt(s, i))
      Starts == {i \in 1..n : ~Blank(i) /\ Blank(i - 1)}
      EndOf(i) == CHOOSE j \in i..n :
                    Blank(j + 1) /\ \A k \in i..j : ~Blank(k)
  IN {SubSeq(s, i, EndOf(i)) : i \in Starts}

\* str(n) of a natural number, as an f-string formats it
RECURSIVE IntToStr(_)
IntToStr(n) ==
  IF n < 10 THEN CharAt("0123456789", n + 1)
  ELSE IntToStr(n \div 10) \o CharAt("0123456789", (n % 10) + 1)

Range(f) == {f[i] : i \in DOMAIN f}

(***************************************************************************)
(* Scores                                                                  *)
(***************************************************************************)
RECURSIVE GCD(_, _)
GCD(a, b) == IF b = 0 THEN a ELSE GCD(b, a % b)

\* the rational n/d (d > 0) in lowest terms
Ratio(n, d) == LET g == GCD(n, d) IN <<n \div g, d \div g>>

ScoreGt(a, b) == a[1] * b[2] > b[1] * a[2]
ScoreGe(a, b) == a[1] * b[2] >= b[1] * a[2]
ScoreLt(a, b) == ScoreGt(b, a)

DefaultThreshold == Ratio(3, 10)
HighScore == Ratio(6, 10)
MediumScore == Ratio(4, 10)
WeakScore == Ratio(4, 10)
AnswerChars == 200
TopEvidence == 5

(***************************************************************************)
(* Inputs: questions as the questionnaire loader produces them, evidence   *)
(* items as EvidenceExtractor produces them                                *)
(***************************************************************************)
\* the question load_questionnaire reads from sheet row row_idx
Question(row_idx, text) ==
  [id |-> "Q" \o IntToStr(row_idx), question |-> text,
   category |-> "General", row_num |-> row_idx]

QEncrypt == Question(2, "Is data encryption at rest?")
QAudit == Question(3, "Is MFA audit logging on?")
QLease == Question(4, "Who pays the office lease?")
QBackup == Question(5, "Do backup keys rotate on audits?")

QSiem == Question(6, "Is logging sent to the siem?")
QPatch == Question(7, "Do you patch third party code?")

QuestionPool == {QEncrypt, QAudit, QLease, QBackup}

\* a questionnaire whose rows touch every risk category
TopicQuestions == <<QEncrypt, QAudit, QLease, QBackup, QSiem, QPatch>>

ControlStatement(text, keywords, source) ==
  [text |-> text, keywords |-> keywords, source |-> source,
   confidence |-> IF Len(keywords) > 1 THEN "medium" ELSE "low",
   type |-> "control_statement"]

\* Python's None where a dict is expected
None == [py |-> "None"]

\* the attribute does not exist before the first assess call
Unset == [py |-> "unset"]

\* a row whose length differs from the header row's: row_data is None
TableEntry(text, keywords, source) ==
  [text |-> text, keywords |-> keywords, source |-> source,
   confidence |-> "high", type |-> "table_entry", row_data |-> None]

\* 217 characters: longer than the answer prefix
LongText ==
  "Data encryption is at every layer and key rotation with hardware modules"
  \o " key rotation with hardware modules key rotation with hardware modules"
  \o " key rotation with hardware modules key rotation with hardware modules"
  \o " done"

EvRest == ControlStatement("Data is at rest with tls",
                           <<"tls">>, "policy.pdf (Page 1)")
EvKeys == ControlStatement("Data encryption keys rotate",
                           <<"encryption">>, "policy.pdf (Page 2)")
EvFull == TableEntry("Encryption at rest? Yes data is safe",
                     <<"encryption">>, "policy.pdf (Page 3, Table 0) (Row 1)")
EvLong == ControlStatement(LongText, <<"encryption">>, "policy.pdf (Page 4)")
EvAudit == TableEntry("MFA is on? Audit logging too",
                      <<"audit", "logging", "mfa">>,
                      "soc.xlsx (Sheet: Controls) (Row 1)")
EvHand == ControlStatement("Audit data is at hand",
                           <<"audit">>, "soc.pdf (Page 3)")
\* what extract_certifications emits: no text field
EvCert ==
  [certification |-> "ISO 27001", context |-> "We hold ISO 27001",
   source |-> "soc.pdf (Page 4)", confidence |-> "high",
   type |-> "certification"]

EvidencePool == {EvRest, EvKeys, EvLong, EvCert}
RankedPool == {EvRest, EvKeys, EvFull, EvLong, EvAudit, EvHand}

Thresholds == {DefaultThreshold, Ratio(1, 5), Ratio(1, 2)}

(***************************************************************************)
(* QuestionnaireMapper                                                     *)
(***************************************************************************)
\* The sentence encoder and cosine_similarity are outside the repository:
\* a fixed table of scores in tenths stands for them (0 also covers the
\* except branch, which returns 0.0).
EncoderScore(question, evidence_text) ==
  Ratio((Len(question) + 3 * Len(evidence_text)) % 11, 10)

\* an overlap measured against the words of the evidence
SimilarityOverEvidence(m, question, evidence_text) ==
  LET question_words == Words(Lower(question))
      evidence_words == Words(Lower(evidence_text))
      overlap == Cardinality(question_words \cap evidence_words)
  IN IF evidence_words # {}
     THEN Ratio(overlap, Cardinality(evidence_words))
     ELSE Ratio(0, 1)

calculate_similarity(m, question, evidence_text) ==
  IF m = "None"
  THEN LET question_words == Words(Lower(question))
           evidence_words == Words(Lower(evidence_text))
           overlap == Cardinality(question_words \cap evidence_words)
       IN IF question_words # {}
          THEN Ratio(overlap, Cardinality(question_words))
          ELSE Ratio(0, 1)
  ELSE EncoderScore(question, evidence_text)

PoolQuestionTexts == {x.question : x \in QuestionPool}
PoolEvidenceTexts ==
  {x.text : x \in {y \in EvidencePool \cup RankedPool : "text" \in DOMAIN y}}

\* calculate_similarity on the texts of the pools, computed once
SimilarityOfPools ==
  [m \in {"None", "encoder"} |->
     [q \in PoolQuestionTexts |->
        [e \in PoolEvidenceTexts |-> calculate_similarity(m, q, e)]]]

\* self.calculate_similarity(question, evidence_text)
Similarity(m, question, evidence_text) ==
  IF question \in PoolQuestionTexts /\ evidence_text \in PoolEvidenceTexts
  THEN SimilarityOfPools[m][question][evidence_text]
  ELSE calculate_similarity(m, question, evidence_text)

\* dict.get(key, default)
Get(d, key, default) == IF key \in DOMAIN d THEN d[key] ELSE default

\* the inner loop of map_evidence_to_questions, from library index i on
RECURSIVE MatchFrom(_, _, _, _, _, _)
MatchFrom(m, question_text, library, thr, i, matched_evidence) ==
  IF i > Len(library) THEN matched_evidence
  ELSE LET evidence == library[i]
           similarity == Similarity(m, question_text, evidence.text)
       IN MatchFrom(m, question_text, library, thr, i + 1,
            IF ScoreGe(similarity, thr)
            THEN Append(matched_evidence,
                   [evidence_text |-> evidence.text,
                    source |-> evidence.source,
                    keywords |-> Get(evidence, "keywords", <<>>),
                    similarity_score |-> similarity,
                    evidence_type |-> Get(evidence, "type", "unknown")])
            ELSE matched_evidence)

\* an insertion that puts x before the items of equal score
RECURSIVE InsertBeforeEqual(_, _)
InsertBeforeEqual(sorted, x) ==
  IF sorted = <<>> THEN <<x>>
  ELSE IF ScoreGt(Head(sorted).similarity_score, x.similarity_score)
       THEN <<Head(sorted)>> \o InsertBeforeEqual(Tail(sorted), x)
       ELSE <<x>> \o sorted

\* where list.sort(key=similarity_score, reverse=True) puts x among the
\* already sorted items: after every item that scores at least as much
RECURSIVE InsertBySimilarity(_, _)
InsertBySimilarity(sorted, x) ==
  IF sorted = <<>> THEN <<x>>
  ELSE IF ScoreGe(Head(sorted).similarity_score, x.similarity_score)
       THEN <<Head(sorted)>> \o InsertBySimilarity(Tail(sorted), x)
       ELSE <<x>> \o sorted

\* matched_evidence.sort(key=lambda x: x['similarity_score'], reverse=True)
RECURSIVE SortBySimilarity(_)
SortBySimilarity(items) ==
  IF items = <<>> THEN <<>>
  ELSE InsertBySimilarity(SortBySimilarity(SubSeq(items, 1, Len(items) - 1)),
                          items[Len(items)])

\* _generate_answer with the MEDIUM and LOW branches exchanged
GenerateAnswerSwapped(evidence_list) ==
  IF evidence_list = <<>> THEN <<"Insufficient Evidence", "NOT_FOUND">>
  ELSE IF ScoreGt(evidence_list[1].similarity_score, HighScore)
       THEN <<"Yes - " \o Prefix(evidence_list[1].evidence_text, AnswerChars)
                \o "...", "HIGH">>
       ELSE IF ScoreGt(evidence_list[1].similarity_score, MediumScore)
            THEN <<"Insufficient Evidence", "LOW">>
            ELSE <<"Partially Addressed - See evidence", "MEDIUM">>

\* _generate_answer with the boundary scores counted in the upper band
GenerateAnswerInclusive(evidence_list) ==
  IF evidence_list = <<>> THEN <<"Insufficient Evidence", "NOT_FOUND">>
  ELSE IF ScoreGe(evidence_list[1].similarity_score, HighScore)
       THEN <<"Yes - " \o Prefix(evidence_list[1].evidence_text, AnswerChars)
                \o "...", "HIGH">>
       ELSE IF ScoreGe(evidence_list[1].similarity_score, MediumScore)
            THEN <<"Partially Addressed - See evidence", "MEDIUM">>
            ELSE <<"Insufficient Evidence", "LOW">>

\* an answer that calls the empty list LOW
GenerateAnswerEmptyLow(evidence_list) ==
  IF evidence_list = <<>> THEN <<"Insufficient Evidence", "LOW">>
  ELSE IF ScoreGt(evidence_list[1].similarity_score, HighScore)
       THEN <<"Yes - " \o Prefix(evidence_list[1].evidence_text, AnswerChars)
                \o "...", "HIGH">>
       ELSE IF ScoreGt(evidence_list[1].similarity_score, MediumScore)
            THEN <<"Partially Addressed - See evidence", "MEDIUM">>
            ELSE <<"Insufficient Evidence", "LOW">>

_generate_answer(evidence_list) ==
  IF evidence_list = <<>> THEN <<"Insufficient Evidence", "NOT_FOUND">>
  ELSE IF ScoreGt(evidence_list[1].similarity_score, HighScore)
       THEN <<"Yes - " \o Prefix(evidence_list[1].evidence_text, AnswerChars)
                \o "...", "HIGH">>
       ELSE IF ScoreGt(evidence_list[1].similarity_score, MediumScore)
            THEN <<"Partially Addressed - See evidence", "MEDIUM">>
            ELSE <<"Insufficient Evidence", "LOW">>

GapNoEvidence == "No evidence found in vendor documentation"
GapWeak == "Evidence is weak or indirect"
GapSingle == "Single source only - requires corroboration"

\* _identify_gaps with a weak-evidence check that includes the score 0.4
IdentifyGapsInclusive(question, evidence_list) ==
  LET first ==
        IF evidence_list = <<>> THEN <<GapNoEvidence>>
        ELSE IF ScoreGe(WeakScore, evidence_list[1].similarity_score)
             THEN <<GapWeak>>
             ELSE <<>>
  IN IF Len(evidence_list) < 2 THEN Append(first, GapSingle) ELSE first

\* _identify_gaps with three independent checks, the weak-evidence one
\* reading an empty list as a top score of 0
IdentifyGapsIndependent(question, evidence_list) ==
  LET none == IF evidence_list = <<>> THEN <<GapNoEvidence>> ELSE <<>>
      weak == IF evidence_list = <<>>
                 \/ ScoreLt(evidence_list[1].similarity_score, WeakScore)
              THEN <<GapWeak>> ELSE <<>>
      single == IF Len(evidence_list) < 2 THEN <<GapSingle>> ELSE <<>>
  IN none \o weak \o single

_identify_gaps(question, evidence_list) ==
  LET first ==
        IF evidence_list = <<>> THEN <<GapNoEvidence>>
        ELSE IF ScoreLt(evidence_list[1].similarity_score, WeakScore)
             THEN <<GapWeak>>
             ELSE <<>>
  IN IF Len(evidence_list) < 2 THEN Append(first, GapSingle) ELSE first

\* a list created once before the loop and shared by its iterations
SharedMatchedEvidence(previous) == previous

\* the list a loop iteration starts from: matched_evidence = []
NewMatchedEvidence(previous) == <<>>

\* one iteration of the outer loop: the mapping appended for `question`;
\* `previous` is the matched_evidence list of the iteration before
MapQuestion(m, question, library, thr, previous) ==
  LET question_text == question.question
      matched_evidence ==
        SortBySimilarity(MatchFrom(m, question_text, library, thr, 1,
                                   NewMatchedEvidence(previous)))
      generated == _generate_answer(matched_evidence)
  IN [mapping |->
        [question_id |-> question.id,
         question |-> question_text,
         category |-> Get(question, "category", "General"),
         answer |-> generated[1],
         evidence |-> SubSeq(matched_evidence, 1,
                             Min(TopEvidence, Len(matched_evidence))),
         confidence |-> generated[2],
         gaps |-> _identify_gaps(question_text, matched_evidence)],
      matched_evidence |-> matched_evidence]

\* question_mappings after the loop has handled questions i..Len(questions)
RECURSIVE MapFrom(_, _, _, _, _, _, _)
MapFrom(m, qs, library, thr, i, mappings, previous) ==
  IF i > Len(qs) THEN mappings
  ELSE LET step == MapQuestion(m, qs[i], library, thr, previous)
       IN MapFrom(m, qs, library, thr, i + 1,
                  Append(mappings, step.mapping), step.matched_evidence)

\* evidence['text'] raises KeyError on an item without that key; the first
\* question already reads every item
MapRaises(qs, library) ==
  qs # <<>> /\ \E i \in DOMAIN library : "text" \notin DOMAIN library[i]

\* self.question_mappings = []: the field is bound to a new empty list, the
\* list it was bound to is another object
NewMappings(previous) == [items |-> <<>>, same_object |-> FALSE]

\* the list map_evidence_to_questions leaves in question_mappings, on a
\* mapper whose question_mappings was previous
map_evidence_to_questions(previous, m, qs, library, thr) ==
  IF MapRaises(qs, library) THEN NewMappings(previous).items
  ELSE MapFrom(m, qs, library, thr, 1, NewMappings(previous).items, <<>>)

\* a mapper that takes the evidence out of the library it is given
ArgumentsDrainedByMap(qs, library) ==
  [questions |-> qs, evidence_library |-> <<>>]

\* the caller's question list and library after the call: the loops only
\* read them
ArgumentsAfterMap(qs, library) ==
  [questions |-> qs, evidence_library |-> library]

(***************************************************************************)
(* Large questionnaires: mappings as the mapper returns them, for          *)
(* questions that all speak of the vendor                                  *)
(***************************************************************************)
BatchText(i) == "Vendor item " \o IntToStr(i) \o " checked?"

BatchEvidence(score) ==
  <<[evidence_text |-> "Vendor items are checked under tls",
     source |-> "policy.pdf (Page 1)",
     keywords |-> <<"tls">>,
     similarity_score |-> score,
     evidence_type |-> "control_statement"]>>

\* the mapping of the i-th question of the batch, of confidence conf
BatchMapping(i, conf) ==
  [question_id |-> "Q" \o IntToStr(i + 1),
   question |-> BatchText(i),
   category |-> "General",
   answer |-> CASE conf = "HIGH" ->
                     "Yes - Vendor items are checked under tls..."
                [] conf = "MEDIUM" -> "Partially Addressed - See evidence"
                [] OTHER -> "Insufficient Evidence",
   evidence |-> CASE conf = "HIGH" -> BatchEvidence(Ratio(3, 4))
                  [] conf = "MEDIUM" -> BatchEvidence(Ratio(1, 2))
                  [] conf = "LOW" -> BatchEvidence(Ratio(2, 5))
                  [] OTHER -> <<>>,
   confidence |-> conf,
   gaps |-> IF conf = "NOT_FOUND" THEN <<GapNoEvidence, GapSingle>>
            ELSE <<GapSingle>>]

\* BatchMapping for every position and confidence, computed once
BatchMappings ==
  [conf \in {"HIGH", "MEDIUM", "LOW", "NOT_FOUND"} |->
     [i \in 1..(MaxBatch + 1) |-> BatchMapping(i, conf)]]

\* a questions of confidence confA followed by b questions of confidence confB
Batch(a, confA, b, confB) ==
  [i \in 1..(a + b) |->
     IF i <= a THEN BatchMappings[confA][i] ELSE BatchMappings[confB][i]]

BatchKinds ==
  {<<"NOT_FOUND", "MEDIUM">>, <<"LOW", "HIGH">>, <<"LOW", "NOT_FOUND">>,
   <<"HIGH", "MEDIUM">>}

Confidences == {"HIGH", "MEDIUM", "LOW", "NOT_FOUND"}

\* the mapping the mapper returns for question when its best evidence
\* gives it confidence conf
TopicMapping(question, conf) ==
  [question_id |-> question.id,
   question |-> question.question,
   category |-> question.category,
   answer |-> CASE conf = "HIGH" ->
                     "Yes - Vendor items are checked under tls..."
                [] conf = "MEDIUM" -> "Partially Addressed - See evidence"
                [] OTHER -> "Insufficient Evidence",
   evidence |-> CASE conf = "HIGH" -> BatchEvidence(Ratio(3, 4))
                  [] conf = "MEDIUM" -> BatchEvidence(Ratio(1, 2))
                  [] conf = "LOW" -> BatchEvidence(Ratio(3, 10))
                  [] OTHER -> <<>>,
   confidence |-> conf,
   gaps |-> CASE conf = "NOT_FOUND" -> <<GapNoEvidence, GapSingle>>
              [] conf = "LOW" -> <<GapWeak, GapSingle>>
              [] OTHER -> <<GapSingle>>]

\* the mappings of the first n topic questions, of confidences confs
TopicMappings(n, confs) ==
  [i \in 1..n |-> TopicMapping(TopicQuestions[i], confs[i])]

(***************************************************************************)
(* RiskAssessor                                                            *)
(***************************************************************************)
Category(name, keywords) == [name |-> name, keywords |-> keywords]

\* the dict keeps its insertion order
RISK_CATEGORIES ==
  <<Category("data_protection",
      <<"encryption", "data protection", "privacy", "gdpr",
        "confidentiality">>),
    Category("access_control",
      <<"authentication", "authorization", "access control", "mfa",
        "password">>),
    Category("monitoring",
      <<"logging", "monitoring", "audit", "siem", "detection">>),
    Category("incident_response",
      <<"incident", "response", "breach", "disaster recovery", "backup">>),
    Category("compliance",
      <<"compliance", "certification", "soc 2", "iso 27001", "audit">>),
    Category("vulnerability_management",
      <<"vulnerability", "patch", "scanning", "penetration test">>),
    Category("vendor_management",
      <<"vendor", "third party", "supplier", "subprocessor">>)>>

\* characters lo..hi of category.replace('_', ' ')
RECURSIVE SpacedFrom(_, _, _)
SpacedFrom(s, lo, hi) ==
  IF lo > hi THEN ""
  ELSE IF lo = hi THEN (IF CharAt(s, lo) = "_" THEN " " ELSE CharAt(s, lo))
       ELSE LET mid == (lo + hi) \div 2
            IN SpacedFrom(s, lo, mid) \o SpacedFrom(s, mid + 1, hi)

Spaced(s) == SpacedFrom(s, 1, Len(s))

\* characters lo..hi of str.title(): a letter is upper-cased after a
\* non-letter and lower-cased after a letter
RECURSIVE TitleFrom(_, _, _)
TitleFrom(s, lo, hi) ==
  IF lo > hi THEN ""
  ELSE IF lo = hi
       THEN (IF lo > 1 /\ IsLetter(CharAt(s, lo - 1))
             THEN LowerChar(CharAt(s, lo))
             ELSE UpperChar(CharAt(s, lo)))
       ELSE LET mid == (lo + hi) \div 2
            IN TitleFrom(s, lo, mid) \o TitleFrom(s, mid + 1, hi)

Title(s) == TitleFrom(s, 1, Len(s))

\* the items of a list of lists, in order
RECURSIVE Flatten(_)
Flatten(lists) ==
  IF lists = <<>> THEN <<>> ELSE Head(lists) \o Flatten(Tail(lists))

_analyze_confidence(mappings) ==
  LET Conf(m) == Get(m, "confidence", "NOT_FOUND")
      seen == {Conf(mappings[i]) : i \in DOMAIN mappings}
  IN [conf \in seen |->
        Cardinality({i \in DOMAIN mappings : Conf(mappings[i]) = conf})]

\* low_conf_count > len(category_questions) * 0.5: the product is exact
MoreThanHalf(low, n) == 2 * low > n

\* low_conf_count > len(category_questions) * 0.7 in double arithmetic.
\* The double 0.7 is 0.7 - 0.4 * 2^-53.  When 0.7 * n is not an integer the
\* product is at least 0.1 away from the integer low and the comparison is
\* the exact one.  When 0.7 * n is the integer k, with 2^e <= k < 2^(e+1),
\* the exact product k - (4k/7) * 2^-53 rounds to the double below k iff it
\* is nearer to it than to k, that is iff 4k > 7 * 2^e; it then compares
\* below low = k.
RECURSIVE PowerOfTwoBelow(_)
PowerOfTwoBelow(k) == IF k < 2 THEN 1 ELSE 2 * PowerOfTwoBelow(k \div 2)

MoreThanSevenTenths(low, n) ==
  \/ 10 * low > 7 * n
  \/ /\ 10 * low = 7 * n
     /\ low > 0
     /\ 4 * low > 7 * PowerOfTwoBelow(low)

\* list(set(items)): the set's iteration order is fixed by the string
\* hashes, that is by the interpreter's hash seed; `order` lists the
\* strings as that seed arranges them
ListOfSet(order, items) ==
  SelectSeq(order, LAMBDA g : g \in Range(items))

IsLowConfidence(m) == m.confidence \in {"LOW", "NOT_FOUND"}

\* the keyword test without question.lower()
MatchesKeywordsCaseSensitive(question, keywords) ==
  \E k \in DOMAIN keywords : Contains(question, keywords[k])

\* any(kw in question_lower for kw in keywords)
MatchesKeywords(question, keywords) ==
  LET question_lower == Lower(question)
  IN \E k \in DOMAIN keywords : Contains(question_lower, keywords[k])

AssessedQuestionTexts ==
  PoolQuestionTexts \cup {BatchText(i) : i \in 1..(MaxBatch + 1)}
    \cup {TopicQuestions[i].question : i \in DOMAIN TopicQuestions}

\* the categories whose keywords match, for the question texts of the
\* pools, computed once
CategoriesOfPools ==
  [q \in AssessedQuestionTexts |->
     {i \in DOMAIN RISK_CATEGORIES :
        MatchesKeywords(q, RISK_CATEGORIES[i].keywords)}]

\* category_questions of category i
CategoryQuestions(i, mappings) ==
  LET Matches(mapping) ==
        IF mapping.question \in AssessedQuestionTexts
        THEN i \in CategoriesOfPools[mapping.question]
        ELSE MatchesKeywords(mapping.question, RISK_CATEGORIES[i].keywords)
  IN SelectSeq(mappings, Matches)

\* a severity that calls the categories up to 0.7 low
RiskSeverityLow(low_conf_count, n) ==
  IF MoreThanSevenTenths(low_conf_count, n) THEN "HIGH" ELSE "LOW"

\* 'HIGH' if low_conf_count > len(category_questions) * 0.7 else 'MEDIUM'
RiskSeverity(low_conf_count, n) ==
  IF MoreThanSevenTenths(low_conf_count, n) THEN "HIGH" ELSE "MEDIUM"

\* a list of the ids of all questions of the category
AffectedQuestionsAll(category_questions) ==
  [j \in DOMAIN category_questions |-> category_questions[j].question_id]

\* [m['question_id'] for m in category_questions
\*  if m['confidence'] in ['LOW', 'NOT_FOUND']]
AffectedQuestions(category_questions) ==
  LET low_questions == SelectSeq(category_questions, IsLowConfidence)
  IN [j \in DOMAIN low_questions |-> low_questions[j].question_id]

\* the risks list after the category loop has handled categories i..7
RECURSIVE RisksFrom(_, _, _, _)
RisksFrom(order, mappings, i, risks) ==
  IF i > Len(RISK_CATEGORIES) THEN risks
  ELSE LET category == RISK_CATEGORIES[i].name
           category_questions ==
             CategoryQuestions(i, mappings)
           low_questions == SelectSeq(category_questions, IsLowConfidence)
           low_conf_count == Len(low_questions)
           n == Len(category_questions)
           risk ==
             [category |-> Title(Spaced(category)),
              severity |-> RiskSeverity(low_conf_count, n),
              description |->
                "Insufficient evidence for " \o IntToStr(low_conf_count)
                \o "/" \o IntToStr(n) \o " " \o Spaced(category)
                \o " controls",
              affected_questions |-> AffectedQuestions(category_questions),
              gaps |->
                ListOfSet(order,
                  Flatten([j \in DOMAIN category_questions |->
                             Get(category_questions[j], "gaps", <<>>)]))]
       IN RisksFrom(order, mappings, i + 1,
            IF category_questions # <<>> /\ MoreThanHalf(low_conf_count, n)
            THEN Append(risks, risk)
            ELSE risks)

SeverityOrder(severity) ==
  CASE severity = "HIGH" -> 0
    [] severity = "MEDIUM" -> 1
    [] severity = "LOW" -> 2
    [] OTHER -> 3

\* a sort that puts x before the risks of its own severity
RECURSIVE InsertBeforeSameSeverity(_, _)
InsertBeforeSameSeverity(sorted, x) ==
  IF sorted = <<>> THEN <<x>>
  ELSE IF SeverityOrder(Head(sorted).severity) < SeverityOrder(x.severity)
       THEN <<Head(sorted)>> \o InsertBeforeSameSeverity(Tail(sorted), x)
       ELSE <<x>> \o sorted

\* where the stable risks.sort(key=severity_order) puts x
RECURSIVE InsertBySeverity(_, _)
InsertBySeverity(sorted, x) ==
  IF sorted = <<>> THEN <<x>>
  ELSE IF SeverityOrder(Head(sorted).severity) <= SeverityOrder(x.severity)
       THEN <<Head(sorted)>> \o InsertBySeverity(Tail(sorted), x)
       ELSE <<x>> \o sorted

RECURSIVE SortBySeverity(_)
SortBySeverity(risks) ==
  IF risks = <<>> THEN <<>>
  ELSE InsertBySeverity(SortBySeverity(SubSeq(risks, 1, Len(risks) - 1)),
                        risks[Len(risks)])

_identify_risks(order, mappings) ==
  SortBySeverity(RisksFrom(order, mappings, 1, <<>>))

FollowupLimit == 5
NotFoundLimit == 5
NotFoundFollowups == 10

\* the test with a threshold that includes the limit itself
ManyNotFoundInclusive(not_found_questions) ==
  Len(not_found_questions) >= NotFoundLimit

\* len(not_found_questions) > 5
ManyNotFound(not_found_questions) ==
  Len(not_found_questions) > NotFoundLimit

_generate_recommendations(risks, mappings) ==
  LET ForRisk(risk) ==
        [priority |-> "Critical",
         category |-> risk.category,
         action |-> "Request additional documentation for "
                    \o risk.category \o " controls",
         rationale |-> risk.description,
         questions_to_followup |->
           SubSeq(risk.affected_questions, 1,
                  Min(FollowupLimit, Len(risk.affected_questions)))]
      high_risks == SelectSeq(risks, LAMBDA r : r.severity = "HIGH")
      high == [j \in DOMAIN high_risks |-> ForRisk(high_risks[j])]
      not_found_questions ==
        SelectSeq(mappings, LAMBDA m : m.confidence = "NOT_FOUND")
      first_not_found ==
        SubSeq(not_found_questions, 1,
               Min(NotFoundFollowups, Len(not_found_questions)))
  IN IF ManyNotFound(not_found_questions)
     THEN Append(high,
            [priority |-> "High",
             category |-> "Documentation",
             action |-> "Request comprehensive security documentation package",
             rationale |-> IntToStr(Len(not_found_questions))
                           \o " questions have no supporting evidence",
             questions_to_followup |->
               [j \in DOMAIN first_not_found |->
                  first_not_found[j].question_id]])
     ELSE high

\* score_map with the weights of MEDIUM and LOW exchanged
ScoreMapSwapped(conf) ==
  CASE conf = "HIGH" -> 3
    [] conf = "MEDIUM" -> 1
    [] conf = "LOW" -> 2
    [] OTHER -> 0

\* score_map.get(m.get('confidence', 'NOT_FOUND'), 0)
ScoreMap(conf) ==
  CASE conf = "HIGH" -> 3
    [] conf = "MEDIUM" -> 2
    [] conf = "LOW" -> 1
    [] OTHER -> 0

RECURSIVE SumWeights(_)
SumWeights(mappings) ==
  IF mappings = <<>> THEN 0
  ELSE ScoreMap(Get(Head(mappings), "confidence", "NOT_FOUND"))
       + SumWeights(Tail(mappings))

\* round(x, 1) of x = num/den >= 0, in tenths.  Away from a tie the double
\* x rounds as the exact quotient does.  When the exact quotient lies
\* midway between two tenths, the rounding errors of the division and of
\* the product by 100 decide which of the two is returned: `tie` is that
\* decision.
RoundTenths(num, den, tie) ==
  LET floor == (10 * num) \div den
      twice == 2 * ((10 * num) % den)
  IN IF twice > den \/ (twice = den /\ tie = "up")
     THEN floor + 1 ELSE floor

\* normalized_score >= bound, normalized_score = (total_score/(total*3))*100
NormalizedAtLeast(total_score, total, bound) ==
  100 * total_score >= bound * (total * 3)

LowRiskFrom == 70
MediumRiskFrom == 50
HighRiskFrom == 30

\* the score is kept in tenths: 667 is the float 66.7
\* an empty questionnaire rated like one without any evidence
NoQuestionsCritical == [score |-> 0, level |-> "CRITICAL RISK"]

\* return 0, "UNKNOWN"
NoQuestionsScore == [score |-> 0, level |-> "UNKNOWN"]

_calculate_risk_score(mappings, tie) ==
  LET total == Len(mappings)
      total_score == SumWeights(mappings)
  IN IF total = 0 THEN NoQuestionsScore
     ELSE [score |-> RoundTenths(100 * total_score, total * 3, tie),
           level |->
             IF NormalizedAtLeast(total_score, total, LowRiskFrom)
             THEN "LOW RISK"
             ELSE IF NormalizedAtLeast(total_score, total, MediumRiskFrom)
                  THEN "MEDIUM RISK"
                  ELSE IF NormalizedAtLeast(total_score, total, HighRiskFrom)
                       THEN "HIGH RISK"
                       ELSE "CRITICAL RISK"]

\* a lookup that always falls back to the default
StrideOfDefault(category) == "Information Disclosure"

\* stride_mapping.get(category, 'Information Disclosure')
StrideOf(category) ==
  CASE category = "Data Protection" -> "Information Disclosure"
    [] category = "Access Control" -> "Elevation of Privilege"
    [] category = "Monitoring" -> "Repudiation"
    [] category = "Incident Response" -> "Denial of Service"
    [] category = "Compliance" -> "Tampering"
    [] category = "Vulnerability Management" -> "Spoofing"
    [] category = "Vendor Management" -> "Elevation of Privilege"
    [] OTHER -> "Information Disclosure"

_get_threat_impact(stride_category, severity) ==
  LET base_impact ==
        CASE stride_category = "Spoofing" ->
               "Unauthorized access through identity impersonation"
          [] stride_category = "Tampering" ->
               "Unauthorized modification of data or configurations"
          [] stride_category = "Repudiation" ->
               "Inability to prove actions occurred or track accountability"
          [] stride_category = "Information Disclosure" ->
               "Unauthorized access to sensitive data"
          [] stride_category = "Denial of Service" ->
               "Service disruption affecting availability"
          [] stride_category = "Elevation of Privilege" ->
               "Unauthorized access to elevated permissions"
          [] stride_category = "Historical Incident" ->
               "Repeated security failures based on past incidents"
          [] OTHER -> "Potential security impact"
  IN IF severity = "HIGH"
     THEN base_impact \o " - Critical impact to business operations"
     ELSE IF severity = "MEDIUM"
          THEN base_impact \o " - Moderate impact requiring attention"
          ELSE base_impact \o " - Low impact but requires monitoring"

_suggest_controls(threat_category) ==
  CASE threat_category = "Spoofing" ->
         <<"Multi-factor authentication", "Strong password policies",
           "Identity verification">>
    [] threat_category = "Tampering" ->
         <<"Data integrity checks", "Code signing", "Change management">>
    [] threat_category = "Repudiation" ->
         <<"Comprehensive audit logging", "Digital signatures",
           "Time stamping">>
    [] threat_category = "Information Disclosure" ->
         <<"Encryption at rest and in transit", "Access controls",
           "Data classification">>
    [] threat_category = "Denial of Service" ->
         <<"Rate limiting", "DDoS protection", "Redundancy and failover">>
    [] threat_category = "Elevation of Privilege" ->
         <<"Least privilege access", "Role-based access control",
           "Regular access reviews">>
    [] threat_category = "Historical Incident" ->
         <<"Incident response plan review", "Security control validation",
           "Third-party audit">>
    [] OTHER -> <<"General security hardening",
                  "Regular security assessments">>

\* a test that takes the empty string for a value
TruthyWhenPresent(v) == v # "None"

\* Python truthiness of a metadata value: None and "" are false
Truthy(v) == v # "None" /\ v # ""

SurfaceChars == 100

_analyze_attack_surfaces(metadata) ==
  LET data_types == Get(metadata, "data_stored", "None")
      integrations == Get(metadata, "integrations", "None")
      services == Get(metadata, "services", "None")
      AnyTerm(text, terms) == \E t \in terms : Contains(Lower(text), t)
      storage ==
        IF Truthy(data_types)
        THEN <<[surface |-> "Data Storage",
                description |-> "Vendor stores: "
                  \o Prefix(data_types, SurfaceChars) \o "...",
                exposure_level |->
                  IF AnyTerm(data_types,
                             {"pii", "credential", "password", "secret"})
                  THEN "HIGH" ELSE "MEDIUM"]>>
        ELSE <<>>
      integration ==
        IF Truthy(integrations)
        THEN <<[surface |-> "System Integration",
                description |-> "Integration points: "
                  \o Prefix(integrations, SurfaceChars) \o "...",
                exposure_level |->
                  IF AnyTerm(integrations, {"production", "database", "api"})
                  THEN "HIGH" ELSE "MEDIUM"]>>
        ELSE <<>>
      service ==
        IF Truthy(services)
        THEN <<[surface |-> "Service Access",
                description |-> "Services provided: "
                  \o Prefix(services, SurfaceChars) \o "...",
                exposure_level |-> "MEDIUM"]>>
        ELSE <<>>
  IN storage \o integration \o service

IncidentLimit == 5
ThreatGapLimit == 3

\* a mitigation for every threat, whatever its severity
NeedsMitigationAlways(threat) == TRUE

\* if threat['severity'] in ['HIGH', 'CRITICAL']
NeedsMitigation(threat) == threat.severity \in {"HIGH", "CRITICAL"}

\* metadata and web are the assessor's vendor_metadata and web_search_results
_generate_threat_model(mappings, risks, metadata, web) ==
  LET FromRisk(risk) ==
        LET stride_category == StrideOf(risk.category)
            gaps == Get(risk, "gaps", <<>>)
        IN [category |-> stride_category,
            severity |-> risk.severity,
            description |-> risk.description,
            affected_questions |->
              Len(Get(risk, "affected_questions", <<>>)),
            evidence_gaps |-> SubSeq(gaps, 1, Min(ThreatGapLimit, Len(gaps))),
            potential_impact |->
              _get_threat_impact(stride_category, risk.severity)]
      incidents == Get(web, "incidents", <<>>)
      FromIncident(incident) ==
        [category |-> "Historical Incident",
         severity |-> "HIGH",
         description |-> "Past security incident: "
                         \o Get(incident, "title", "Unknown incident"),
         affected_questions |-> 0,
         evidence_gaps |-> <<>>,
         potential_impact |->
           "Historical breach indicates potential vulnerabilities in security posture"]
      recent == SubSeq(incidents, 1, Min(IncidentLimit, Len(incidents)))
      threats ==
        [j \in DOMAIN risks |-> FromRisk(risks[j])]
        \o [j \in DOMAIN recent |-> FromIncident(recent[j])]
      Mitigation(threat) ==
        [threat_category |-> threat.category,
         priority |-> IF threat.severity = "HIGH" THEN "Critical" ELSE "High",
         action |-> "Address " \o threat.category \o " risks",
         specific_controls |-> _suggest_controls(threat.category)]
  IN [framework |-> "STRIDE",
      threats |-> threats,
      attack_surfaces |->
        IF metadata # <<>> THEN _analyze_attack_surfaces(metadata) ELSE <<>>,
      mitigations_needed |->
        LET severe == SelectSeq(threats, NeedsMitigation)
        IN [j \in DOMAIN severe |-> Mitigation(severe[j])]]


\* `x or {}` for an optional dict argument
OrEmpty(x) == IF x = None THEN <<>> ELSE x

CountSeverity(risks, severity) ==
  Len(SelectSeq(risks, LAMBDA r : r.severity = severity))

\* the dict that assess stores in risk_assessment and returns, from the
\* values of its local variables
AssessResult(mappings, web, stats, risks, threats, recommendations, score) ==
  [overall_risk |-> score.level,
   risk_score |-> score.score,
   confidence_distribution |-> stats,
   risks |-> risks,
   threat_model |-> threats,
   recommendations |-> recommendations,
   public_incidents_found |-> Len(Get(web, "incidents", <<>>)),
   summary |->
     [total_questions |-> Len(mappings),
      answered_high_confidence |-> Get(stats, "HIGH", 0),
      answered_medium_confidence |-> Get(stats, "MEDIUM", 0),
      answered_low_confidence |-> Get(stats, "LOW", 0),
      insufficient_evidence |-> Get(stats, "NOT_FOUND", 0),
      critical_risks |-> CountSeverity(risks, "HIGH"),
      medium_risks |-> CountSeverity(risks, "MEDIUM"),
      low_risks |-> CountSeverity(risks, "LOW")]]

\* the ways round() can settle the score of these mappings
RoundingTies(mappings) ==
  IF mappings # <<>>
     /\ 2 * ((1000 * SumWeights(mappings)) % (3 * Len(mappings)))
        = 3 * Len(mappings)
  THEN {"down", "up"} ELSE {"down"}

\* an assessor that keeps the field of the call before when the argument
\* is omitted
FieldKeptWhenOmitted(previous, argument) ==
  IF argument = None /\ previous # Unset THEN previous ELSE OrEmpty(argument)



\* self.vendor_metadata = vendor_metadata or {} and
\* self.web_search_results = web_search_results or {}: the field after it
FieldAfterAssess(previous, argument) == OrEmpty(argument)

\* the caller's mappings after the call: assess only reads them
MappingsAfterAssess(mappings) == mappings

\* the dicts assess can return for these mappings once its two fields are
\* metadata and web, under the set order of one hash seed
AssessValues(order, mappings, metadata, web) ==
  UNION
    {{AssessResult(mappings, web, confidence_stats, risks, threat_model,
                   _generate_recommendations(risks, mappings),
                   _calculate_risk_score(mappings, tie)) :
        threat_model \in
          {_generate_threat_model(mappings, risks, metadata, web)},
        tie \in RoundingTies(mappings)} :
       confidence_stats \in {_analyze_confidence(mappings)},
       risks \in {_identify_risks(order, mappings)}}

\* RiskAssessor.assess: what the call does to the assessor's fields
assess(question_mappings_arg, metadata_arg, web_arg) ==
  \E metadata \in {FieldAfterAssess(vendor_metadata, metadata_arg)},
     web \in {FieldAfterAssess(web_search_results, web_arg)} :
    /\ vendor_metadata' = metadata
    /\ web_search_results' = web
    /\ risk_assessment' \in
         AssessValues(hashseed, question_mappings_arg, metadata, web)

(***************************************************************************)
(* The evidence extractor                                                  *)
(***************************************************************************)
SECURITY_KEYWORDS ==
  <<"encryption", "authentication", "authorization", "access control",
    "audit", "logging", "monitoring", "backup", "disaster recovery",
    "incident response", "vulnerability", "patch management", "firewall",
    "antivirus", "malware", "penetration test", "security assessment",
    "compliance", "gdpr", "hipaa", "soc 2", "iso 27001", "pci dss",
    "data protection", "privacy", "confidentiality", "integrity",
    "availability", "multi-factor", "mfa", "2fa", "ssl", "tls",
    "certificate", "key management", "secrets", "password policy",
    "security training", "awareness", "background check",
    "vendor management">>

\* [kw for kw in self.SECURITY_KEYWORDS if kw in lowered]
MatchedKeywords(lowered) ==
  SelectSeq(SECURITY_KEYWORDS, LAMBDA kw : Contains(lowered, kw))

\* str.strip()
Strip(s) ==
  LET kept == {i \in 1..Len(s) : ~IsSpace(CharAt(s, i))}
  IN IF kept = {} THEN ""
     ELSE SubSeq(s, CHOOSE i \in kept : \A j \in kept : i <= j,
                    CHOOSE i \in kept : \A j \in kept : j <= i)

\* re.split(r'[.!?]\s+', text)
RECURSIVE SplitSentences(_)
SplitSentences(text) ==
  LET n == Len(text)
      separators ==
        {i \in 1..(n - 1) : /\ CharAt(text, i) \in {".", "!", "?"}
                            /\ IsSpace(CharAt(text, i + 1))}
  IN IF separators = {} THEN <<text>>
     ELSE LET i == CHOOSE x \in separators : \A y \in separators : x <= y
              after == {j \in (i + 1)..n : ~IsSpace(CharAt(text, j))}
              rest == IF after = {} THEN ""
                      ELSE SubSeq(text,
                                  CHOOSE x \in after : \A y \in after : x <= y,
                                  n)
          IN <<SubSeq(text, 1, i - 1)>> \o SplitSentences(rest)

ShortSentence == 20

\* a rating that calls three or more matched keywords high
TextConfidenceByCount(matched_keywords) ==
  IF Len(matched_keywords) >= 3 THEN "high"
  ELSE IF Len(matched_keywords) > 1 THEN "medium" ELSE "low"

\* "medium" if len(matched_keywords) > 1 else "low"
TextConfidence(matched_keywords) ==
  IF Len(matched_keywords) > 1 THEN "medium" ELSE "low"

\* the evidence_items list after the sentences from position i on
RECURSIVE TextItemsFrom(_, _, _)
TextItemsFrom(sentences, source_ref, i) ==
  IF i > Len(sentences) THEN <<>>
  ELSE LET sentence == Strip(sentences[i])
           matched_keywords == MatchedKeywords(Lower(sentence))
       IN (IF Len(sentence) < ShortSentence \/ matched_keywords = <<>>
           THEN <<>>
           ELSE <<[text |-> sentence,
                   keywords |-> matched_keywords,
                   source |-> source_ref,
                   confidence |-> TextConfidence(matched_keywords),
                   type |-> "control_statement"]>>)
          \o TextItemsFrom(sentences, source_ref, i + 1)

extract_from_text(text, source_ref) ==
  TextItemsFrom(SplitSentences(text), source_ref, 1)

\* ' '.join(cells)
RECURSIVE JoinCells(_)
JoinCells(cells) ==
  IF cells = <<>> THEN ""
  ELSE IF Len(cells) = 1 THEN cells[1]
       ELSE cells[1] \o " " \o JoinCells(Tail(cells))

\* ' '.join([str(cell) for cell in row if cell]) for a row of strings
RowText(row) == JoinCells(SelectSeq(row, LAMBDA cell : cell # ""))

\* dict(zip(headers, row)) if len(headers) == len(row) else None
RowData(headers, row) ==
  IF Len(headers) = Len(row)
  THEN [h \in Range(headers) |->
          row[CHOOSE i \in DOMAIN headers :
                /\ headers[i] = h
                /\ \A j \in DOMAIN headers : headers[j] = h => j <= i]]
  ELSE None

\* the evidence_items list after the rows from row_idx on
RECURSIVE TableItemsFrom(_, _, _)
TableItemsFrom(table_data, source_ref, row_idx) ==
  IF row_idx + 1 > Len(table_data) THEN <<>>
  ELSE LET row == table_data[row_idx + 1]
           row_text == RowText(row)
           matched_keywords == MatchedKeywords(Lower(row_text))
       IN (IF matched_keywords = <<>> THEN <<>>
           ELSE <<[text |-> row_text,
                   keywords |-> matched_keywords,
                   source |-> source_ref \o " (Row " \o IntToStr(row_idx)
                              \o ")",
                   confidence |-> "high",
                   type |-> "table_entry",
                   row_data |-> RowData(table_data[1], row)]>>)
          \o TableItemsFrom(table_data, source_ref, row_idx + 1)

\* an extraction that takes the first row for data
ExtractFromTableWithHeader(table_data, source_ref) ==
  TableItemsFrom(table_data, source_ref, 0)

extract_from_table(table_data, source_ref) ==
  IF Len(table_data) < 2 THEN <<>>
  ELSE TableItemsFrom(table_data, source_ref, 1)

\* the pieces of a certification pattern
Lit(chars) == [kind |-> "literal", chars |-> chars]
Ws == [kind |-> "\\s*", chars |-> ""]
OneOf(chars) == [kind |-> "class", chars |-> chars]

cert_patterns ==
  <<<<Lit("soc"), Ws, OneOf("123"), Ws, Lit("type"), Ws, OneOf("12")>>,
    <<Lit("iso"), Ws, Lit("27001")>>,
    <<Lit("iso"), Ws, Lit("27017")>>,
    <<Lit("iso"), Ws, Lit("27018")>>,
    <<Lit("pci"), Ws, Lit("dss")>>,
    <<Lit("hipaa")>>,
    <<Lit("gdpr")>>,
    <<Lit("ccpa")>>,
    <<Lit("fedramp")>>>>

\* the position after a match of pattern[k..] that starts at pos of the
\* lower-cased text (re.IGNORECASE), or 0 when there is none
RECURSIVE MatchEnd(_, _, _, _)
MatchEnd(lowered, pos, pattern, k) ==
  IF k > Len(pattern) THEN pos
  ELSE LET piece == pattern[k]
           n == Len(lowered)
       IN CASE piece.kind = "literal" ->
                 IF /\ pos + Len(piece.chars) - 1 <= n
                    /\ SubSeq(lowered, pos, pos + Len(piece.chars) - 1)
                         = piece.chars
                 THEN MatchEnd(lowered, pos + Len(piece.chars), pattern, k + 1)
                 ELSE 0
            [] piece.kind = "class" ->
                 IF pos <= n /\ Contains(piece.chars, CharAt(lowered, pos))
                 THEN MatchEnd(lowered, pos + 1, pattern, k + 1)
                 ELSE 0
            [] OTHER ->
                 LET after == {j \in pos..n : ~IsSpace(CharAt(lowered, j))}
                 IN MatchEnd(lowered,
                      IF after = {} THEN n + 1
                      ELSE CHOOSE x \in after : \A y \in after : x <= y,
                      pattern, k + 1)

\* re.finditer(pattern, text, re.IGNORECASE) from position from on: the
\* matches as <<start, end>> character positions, left to right
RECURSIVE FindIter(_, _, _)
FindIter(lowered, pattern, from) ==
  LET starts == {p \in from..Len(lowered) :
                   MatchEnd(lowered, p, pattern, 1) # 0}
  IN IF starts = {} THEN <<>>
     ELSE LET p == CHOOSE x \in starts : \A y \in starts : x <= y
              end == MatchEnd(lowered, p, pattern, 1)
          IN <<<<p, end - 1>>>> \o FindIter(lowered, pattern, end)

ContextChars == 100

\* the certs of one pattern
CertsOf(text, source_ref, pattern) ==
  LET matches == FindIter(Lower(text), pattern, 1)
  IN [j \in DOMAIN matches |->
        [certification |-> SubSeq(text, matches[j][1], matches[j][2]),
         context |->
           Strip(SubSeq(text,
                        IF matches[j][1] - ContextChars > 1
                        THEN matches[j][1] - ContextChars ELSE 1,
                        Min(Len(text), matches[j][2] + ContextChars))),
         source |-> source_ref,
         confidence |-> "high",
         type |-> "certification"]]

extract_certifications(text, source_ref) ==
  Flatten([k \in DOMAIN cert_patterns |->
             CertsOf(text, source_ref, cert_patterns[k])])

\* what extract_all adds to the library for one document
DocumentEvidence(doc) ==
  LET filename == Get(doc, "filename", "unknown")
      PageEvidence(page) ==
        LET source_ref == filename \o " (Page " \o IntToStr(page.page_num)
                          \o ")"
        IN extract_from_text(page.text, source_ref)
           \o extract_certifications(page.text, source_ref)
      TableEvidence(table) ==
        extract_from_table(table.data,
          filename \o " (Page " \o IntToStr(table.page) \o ", Table "
          \o IntToStr(table.table_index) \o ")")
      SheetEvidence(sheet) ==
        LET source_ref == filename \o " (Sheet: " \o sheet.sheet_name \o ")"
            all_text ==
              JoinCells([r \in DOMAIN sheet.data |-> RowText(sheet.data[r])])
        IN extract_from_text(all_text, source_ref)
           \o extract_from_table(sheet.data, source_ref)
      pages == Get(doc, "pages", <<>>)
      tables == Get(doc, "tables", <<>>)
      sheets == Get(doc, "sheets", <<>>)
  IN CASE doc.type = "pdf" ->
            Flatten([i \in DOMAIN pages |-> PageEvidence(pages[i])])
            \o Flatten([i \in DOMAIN tables |-> TableEvidence(tables[i])])
       [] doc.type = "excel" ->
            Flatten([i \in DOMAIN sheets |-> SheetEvidence(sheets[i])])
       [] OTHER -> <<>>

\* self.evidence_library = []: the field is bound to a new empty list, the
\* list it was bound to is another object
NewLibrary(previous) == [items |-> <<>>, same_object |-> FALSE]

\* EvidenceExtractor.extract_all on an extractor whose library is previous
extract_all(previous, parsed_documents) ==
  NewLibrary(previous).items
  \o Flatten([i \in DOMAIN parsed_documents |->
                DocumentEvidence(parsed_documents[i])])

\* parsed documents as the document parser returns them
DocPolicy ==
  [type |-> "pdf",
   filename |-> "policy.pdf",
   pages |-> <<[page_num |-> 1,
                text |-> "Short one. MFA and audit logging are enabled for admins! Is tls used?"]>>,
   tables |-> <<[page |-> 1, table_index |-> 0,
                 data |-> <<<<"Control", "Status">>,
                            <<"Encryption", "Implemented">>,
                            <<"Lunch", "Daily", "Free">>,
                            <<"Data backup", "", "Weekly">>>>]>>]

DocCert ==
  [type |-> "pdf",
   filename |-> "soc2.pdf",
   pages |-> <<[page_num |-> 1,
                text |-> "We hold ISO 27001 certification for all sites. Data is encrypted with tls in transit always."]>>,
   tables |-> <<>>]

DocSheet ==
  [type |-> "excel",
   filename |-> "controls.xlsx",
   sheets |-> <<[sheet_name |-> "Controls",
                 data |-> <<<<"Control", "Status">>,
                            <<"Backup", "Weekly">>,
                            <<"Logging", "On">>>>]>>]

DocNote ==
  [type |-> "unknown",
   filename |-> "notes.txt",
   error |-> "Unsupported file type: .txt"]

(***************************************************************************)
(* The pipeline: a caller loads questions, collects an evidence library,   *)
(* maps the evidence to the questions and assesses the mappings            *)
(***************************************************************************)
\* two of the orders in which a hash seed can arrange the three gap
\* strings of a set
HashSeeds ==
  {<<GapNoEvidence, GapWeak, GapSingle>>, <<GapSingle, GapWeak, GapNoEvidence>>}

MetadataSaaS ==
  [data_stored |-> "Customer PII and API secrets",
   integrations |-> "Slack bot",
   services |-> ""]

WebIncidents ==
  [controls |-> <<>>,
   incidents |-> <<[title |-> "Breach 2021", url |-> "https://a.example/1"],
                   [title |-> "Leak 2023", url |-> "https://a.example/2"]>>]

\* (vendor_metadata, web_search_results) argument pairs of assess
AssessArgs == {<<None, None>>, <<MetadataSaaS, WebIncidents>>}

\* web search results with more incidents than the threat model lists
WebManyIncidents ==
  [controls |-> <<>>,
   incidents |->
     [i \in 1..(IncidentLimit + 1) |->
        [title |-> "Outage " \o IntToStr(i),
         url |-> "https://b.example/" \o IntToStr(i)]]]

TopicArgs == AssessArgs \cup {<<None, WebManyIncidents>>}

\* the record of a call that follows the calls made so far
CallOf(op, args) ==
  [op |-> op, args |-> args, number |-> call.number + 1,
   done |-> call.done \cup {op}]

\* WebSearchAgent.__init__
NewAgent ==
  [search_results |->
     [controls |-> <<>>, incidents |-> <<>>, certifications |-> <<>>],
   evidence_items |-> <<>>]

Init ==
  /\ model \in {"None", "encoder"}
  /\ hashseed \in HashSeeds
  /\ questions = <<>>
  /\ evidence_library = <<>>
  /\ threshold = DefaultThreshold
  /\ question_mappings = <<>>
  /\ mappings_arg = <<>>
  /\ vendor_metadata = Unset
  /\ web_search_results = Unset
  /\ risk_assessment =
       [risks |-> <<>>, recommendations |-> <<>>, summary |-> <<>>]
  /\ call = [op |-> "none", args |-> <<>>, number |-> 0, done |-> {}]
  /\ earlier =
       [evidence_library |-> Unset, question_mappings |-> Unset,
        risk_assessment |-> Unset]
  /\ agent = NewAgent
  /\ pc = "collect"

\* the caller appends a question to the list it will map
LoadQuestion(q) ==
  /\ pc = "collect"
  /\ Len(questions) < MaxQuestions
  /\ q \notin Range(questions)
  /\ questions' = Append(questions, q)
  /\ UNCHANGED <<model, hashseed, evidence_library, threshold,
                 question_mappings, mappings_arg, vendor_metadata,
                 web_search_results, risk_assessment, call, earlier, agent,
                 pc>>

\* the caller appends an evidence item to the library it will map
AddEvidence(e) ==
  /\ pc = "collect"
  /\ Len(evidence_library) < MaxEvidence
  /\ e \notin Range(evidence_library)
  /\ evidence_library' = Append(evidence_library, e)
  /\ UNCHANGED <<model, hashseed, questions, threshold, question_mappings,
                 mappings_arg, vendor_metadata, web_search_results,
                 risk_assessment, call, earlier, agent,
                 pc>>

\* mapper.map_evidence_to_questions(questions, evidence_library, thr)
MapEvidence(thr) ==
  /\ pc = "collect"
  /\ threshold' = thr
  /\ question_mappings' =
       map_evidence_to_questions(question_mappings, model, questions,
                                 evidence_library, thr)
  /\ questions' = ArgumentsAfterMap(questions, evidence_library).questions
  /\ evidence_library' =
       ArgumentsAfterMap(questions, evidence_library).evidence_library
  /\ call' = CallOf("map_evidence_to_questions",
                    [questions |-> questions,
                     evidence_library |-> evidence_library,
                     threshold |-> thr])
  /\ pc' = IF MapRaises(questions, evidence_library)
           THEN "map_error" ELSE "mapped"
  /\ UNCHANGED <<model, hashseed, mappings_arg, vendor_metadata,
                 web_search_results, risk_assessment, earlier, agent>>

\* assessor.assess(question_mappings, metadata, web)
Assess(metadata, web) ==
  /\ pc = "mapped"
  /\ mappings_arg' = MappingsAfterAssess(question_mappings)
  /\ question_mappings' = MappingsAfterAssess(question_mappings)
  /\ assess(question_mappings, metadata, web)
  /\ call' = CallOf("assess",
                    [question_mappings |-> question_mappings,
                     vendor_metadata |-> metadata,
                     web_search_results |-> web])
  /\ pc' = "assessed"
  /\ UNCHANGED <<model, hashseed, questions, evidence_library, threshold,
                 earlier, agent>>

Next ==
  \/ \E q \in QuestionPool : LoadQuestion(q)
  \/ \E e \in EvidencePool : AddEvidence(e)
  \/ \E thr \in Thresholds : MapEvidence(thr)
  \/ \E args \in AssessArgs : Assess(args[1], args[2])

Spec == Init /\ [][Next]_vars

(***************************************************************************)
(* The assessor applied to large questionnaires                            *)
(***************************************************************************)
\* assessor.assess(Batch(a, confA, b, confB))
AssessBatch(a, confA, b, confB) ==
  /\ pc = "collect"
  /\ a + b <= MaxBatch
  /\ \E batch \in {Batch(a, confA, b, confB)} :
       /\ mappings_arg' = MappingsAfterAssess(batch)
       /\ assess(batch, None, None)
       /\ call' = CallOf("assess",
                         [question_mappings |-> batch,
                          vendor_metadata |-> None,
                          web_search_results |-> None])
  /\ pc' = "assessed"
  /\ UNCHANGED <<model, hashseed, questions, evidence_library, threshold,
                 question_mappings, earlier, agent>>

\* only the assessor is in play
BatchInit ==
  Init /\ model = "None"

\* one call, on a fresh assessor
BatchNext ==
  /\ pc = "collect"
  /\ \E a \in 0..MaxBatch, b \in 0..MaxBatch, kind \in BatchKinds :
       AssessBatch(a, kind[1], b, kind[2])

SpecBatch == BatchInit /\ [][BatchNext]_vars

(***************************************************************************)
(* The assessor on the mappings of a topical questionnaire: one assess     *)
(* call on the first n topic questions, each answered with any confidence  *)
(***************************************************************************)
AssessTopics(n, confs, metadata, web) ==
  /\ pc = "collect"
  /\ \E mappings \in {TopicMappings(n, confs)} :
       /\ mappings_arg' = MappingsAfterAssess(mappings)
       /\ assess(mappings, metadata, web)
       /\ call' = CallOf("assess",
                         [question_mappings |-> mappings,
                          vendor_metadata |-> metadata,
                          web_search_results |-> web])
  /\ pc' = "assessed"
  /\ UNCHANGED <<model, hashseed, questions, evidence_library, threshold,
                 question_mappings, earlier, agent>>

TopicInit ==
  Init /\ model = "None"

TopicNext ==
  /\ pc = "collect"
  /\ \E n \in 0..Len(TopicQuestions), args \in TopicArgs :
       \E confs \in [1..n -> Confidences] :
         AssessTopics(n, confs, args[1], args[2])

SpecTopics == TopicInit /\ [][TopicNext]_vars

(***************************************************************************)
(* The assessor under vendor metadata: one assess call on the first n <= 2 *)
(* topic questions with a metadata dict of any of the three fields         *)
(***************************************************************************)
Absent == "absent"

DataStoredValues ==
  {Absent, "", "Order totals", "Customer PII", "user PASSWORDS"}

IntegrationValues == {Absent, "", "Slack bot", "Production API", "Rapid sync"}

ServiceValues == {Absent, "", "Hosting"}

\* the metadata dict with the given fields; an absent field has no key
Metadata(data_stored, integrations, services) ==
  (IF data_stored = Absent THEN <<>> ELSE [data_stored |-> data_stored])
  @@ (IF integrations = Absent THEN <<>> ELSE [integrations |-> integrations])
  @@ (IF services = Absent THEN <<>> ELSE [services |-> services])

AssessWithMetadata(n, confs, metadata) ==
  /\ pc = "collect"
  /\ \E mappings \in {TopicMappings(n, confs)} :
       /\ mappings_arg' = MappingsAfterAssess(mappings)
       /\ assess(mappings, metadata, None)
       /\ call' = CallOf("assess",
                         [question_mappings |-> mappings,
                          vendor_metadata |-> metadata,
                          web_search_results |-> None])
  /\ pc' = "assessed"
  /\ UNCHANGED <<model, hashseed, questions, evidence_library, threshold,
                 question_mappings, earlier, agent>>

SurfaceNext ==
  /\ pc = "collect"
  /\ \E n \in 0..2, d \in DataStoredValues, i \in IntegrationValues,
        s \in ServiceValues :
       \E confs \in [1..n -> Confidences] :
         AssessWithMetadata(n, confs, Metadata(d, i, s))

SpecSurfaces == TopicInit /\ [][SurfaceNext]_vars

(***************************************************************************)
(* The mapper applied to one question and a library large enough for the   *)
(* top-5 cut                                                               *)
(***************************************************************************)
\* the caller appends an evidence item to the library it will rank
RankAddEvidence(e) ==
  /\ pc = "collect"
  /\ Len(evidence_library) < MaxRanked
  /\ e \notin Range(evidence_library)
  /\ evidence_library' = Append(evidence_library, e)
  /\ UNCHANGED <<model, hashseed, questions, threshold, question_mappings,
                 mappings_arg, vendor_metadata, web_search_results,
                 risk_assessment, call, earlier, agent,
                 pc>>

\* mapper.map_evidence_to_questions([q], evidence_library, thr)
RankEvidence(q, thr) ==
  /\ pc = "collect"
  /\ questions' = ArgumentsAfterMap(<<q>>, evidence_library).questions
  /\ evidence_library' =
       ArgumentsAfterMap(<<q>>, evidence_library).evidence_library
  /\ threshold' = thr
  /\ question_mappings' =
       map_evidence_to_questions(question_mappings, model, <<q>>,
                                 evidence_library, thr)
  /\ call' = CallOf("map_evidence_to_questions",
                    [questions |-> <<q>>,
                     evidence_library |-> evidence_library,
                     threshold |-> thr])
  /\ pc' = "mapped"
  /\ UNCHANGED <<model, hashseed, mappings_arg, vendor_metadata,
                 web_search_results, risk_assessment, earlier, agent>>

\* only the mapper is in play
RankInit == Init /\ hashseed = <<GapNoEvidence, GapWeak, GapSingle>>

RankNext ==
  \/ \E e \in RankedPool : RankAddEvidence(e)
  \/ \E q \in QuestionPool, thr \in Thresholds : RankEvidence(q, thr)

SpecRank == RankInit /\ [][RankNext]_vars

(***************************************************************************)
(* Repeated runs: one extractor, one mapper and one assessor are called    *)
(* again and again, each stage on what the stage before it last returned   *)
(***************************************************************************)
MaxCalls == 4

DocumentSets == {<<DocPolicy>>, <<DocCert>>, <<DocSheet, DocNote>>}

QuestionLists == {<<QEncrypt>>, <<QAudit, QBackup>>}

\* the object a field was bound to before the call, if an earlier call of
\* the same operation returned it, and what it holds after the call
EarlierResult(op, before, after, same_object) ==
  IF op \in call.done
  THEN [returned |-> before, now |-> IF same_object THEN after ELSE before]
  ELSE Unset

\* extractor.extract_all(docs)
RunExtract(docs) ==
  /\ pc # "map_error"
  /\ call.number < MaxCalls
  /\ evidence_library' = extract_all(evidence_library, docs)
  /\ earlier' =
       [earlier EXCEPT !.evidence_library =
          EarlierResult("extract_all", evidence_library, evidence_library',
                        NewLibrary(evidence_library).same_object)]
  /\ call' = CallOf("extract_all", [parsed_documents |-> docs])
  /\ pc' = "extracted"
  /\ UNCHANGED <<model, hashseed, questions, threshold, question_mappings,
                 mappings_arg, vendor_metadata, web_search_results,
                 risk_assessment, agent>>

\* mapper.map_evidence_to_questions(qs, extractor.evidence_library)
RunMap(qs) ==
  /\ pc # "map_error"
  /\ call.number < MaxCalls
  /\ threshold' = DefaultThreshold
  /\ question_mappings' =
       map_evidence_to_questions(question_mappings, model, qs,
                                 evidence_library, DefaultThreshold)
  /\ questions' = ArgumentsAfterMap(qs, evidence_library).questions
  /\ evidence_library' =
       ArgumentsAfterMap(qs, evidence_library).evidence_library
  /\ earlier' =
       [earlier EXCEPT !.question_mappings =
          EarlierResult("map_evidence_to_questions", question_mappings,
                        question_mappings',
                        NewMappings(question_mappings).same_object)]
  /\ call' = CallOf("map_evidence_to_questions",
                    [questions |-> qs,
                     evidence_library |-> evidence_library,
                     threshold |-> DefaultThreshold])
  /\ pc' = IF MapRaises(qs, evidence_library) THEN "map_error" ELSE "mapped"
  /\ UNCHANGED <<model, hashseed, mappings_arg, vendor_metadata,
                 web_search_results, risk_assessment, agent>>

\* assessor.assess(mapper.question_mappings, metadata, web); the dict
\* literal at line 55 is a new object at every call
RunAssess(metadata, web) ==
  /\ pc # "map_error"
  /\ call.number < MaxCalls
  /\ mappings_arg' = MappingsAfterAssess(question_mappings)
  /\ question_mappings' = MappingsAfterAssess(question_mappings)
  /\ assess(question_mappings, metadata, web)
  /\ earlier' =
       [earlier EXCEPT !.risk_assessment =
          EarlierResult("assess", risk_assessment, risk_assessment', FALSE)]
  /\ call' = CallOf("assess",
                    [question_mappings |-> question_mappings,
                     vendor_metadata |-> metadata,
                     web_search_results |-> web])
  /\ pc' = "assessed"
  /\ UNCHANGED <<model, hashseed, questions, evidence_library, threshold,
                 agent>>

RunsInit ==
  Init /\ model = "None"

RunsNext ==
  \/ \E docs \in DocumentSets : RunExtract(docs)
  \/ \E qs \in QuestionLists : RunMap(qs)
  \/ \E args \in AssessArgs : RunAssess(args[1], args[2])

SpecRuns == RunsInit /\ [][RunsNext]_vars

(***************************************************************************)
(* The extractor on one document: a PDF whose single page is written from *)
(* up to three segments, or whose single table has up to three data rows  *)
(***************************************************************************)
Segments ==
  {"We serve lunch daily at noon",
   "MFA and audit logging are enabled",
   "  Backups use encryption keys  ",
   "Use tls for all data",
   "Use tls for any api",
   "We hold GDPR and iso27001 papers"}

Separators == {". ", "?\n\n"}

\* the page text: the segments, each but the last closed by the separator
RECURSIVE TextOf(_, _)
TextOf(segments, separator) ==
  IF segments = <<>> THEN ""
  ELSE IF Len(segments) = 1 THEN segments[1]
       ELSE segments[1] \o separator \o TextOf(Tail(segments), separator)

HeaderRows == {<<"Control", "Status">>, <<"Encryption control", "Status">>}

DataRows ==
  {<<"Encryption", "Implemented">>,
   <<"Lunch", "Daily">>,
   <<"Data backup", "", "Weekly">>,
   <<"", "">>,
   <<"MFA">>}

\* extractor.extract_all([doc]) on a new extractor
ExtractDocument(doc, written_from) ==
  /\ pc = "collect"
  /\ evidence_library' = extract_all(evidence_library, <<doc>>)
  /\ call' = CallOf("extract_all",
                    [parsed_documents |-> <<doc>>,
                     written_from |-> written_from])
  /\ pc' = "extracted"
  /\ UNCHANGED <<model, hashseed, questions, threshold, question_mappings,
                 mappings_arg, vendor_metadata, web_search_results,
                 risk_assessment, earlier, agent>>

ExtractPage(segments, separator) ==
  ExtractDocument([type |-> "pdf", filename |-> "policy.pdf",
                   pages |-> <<[page_num |-> 1,
                                text |-> TextOf(segments, separator)]>>,
                   tables |-> <<>>],
                  segments)

ExtractTable(table_data) ==
  ExtractDocument([type |-> "pdf", filename |-> "controls.pdf",
                   pages |-> <<>>,
                   tables |-> <<[page |-> 2, table_index |-> 0,
                                 data |-> table_data]>>],
                  table_data)

MaxSegments == 3
MaxRows == 3

DocumentsInit ==
  Init /\ model = "None" /\ hashseed = <<GapNoEvidence, GapWeak, GapSingle>>

DocumentsNext ==
  /\ pc = "collect"
  /\ \/ \E n \in 1..MaxSegments, separator \in Separators :
          \E segments \in [1..n -> Segments] :
            ExtractPage(segments, separator)
     \/ \E n \in 0..MaxRows, header \in HeaderRows :
          \E rows \in [1..n -> DataRows] :
            \/ ExtractTable(<<header>> \o rows)
            \/ n = 0 /\ ExtractTable(<<>>)

SpecDocuments == DocumentsInit /\ [][DocumentsNext]_vars

(***************************************************************************)
(* Properties of the mapper                                                *)
(***************************************************************************)
\* the mapper has returned
Mapped == pc \in {"mapped", "assessed"}

\* the positions of the library items whose score against the question
\* text reaches the threshold
RetainedAt(question_text) ==
  {i \in DOMAIN evidence_library :
     ScoreGe(Similarity(model, question_text, evidence_library[i].text),
             threshold)}

ScoreAt(question_text, i) ==
  Similarity(model, question_text, evidence_library[i].text)

\* the first library position among `kept` that no other one outscores
TopAt(question_text, kept) ==
  CHOOSE i \in kept :
    \A j \in kept :
      \/ ScoreGt(ScoreAt(question_text, i), ScoreAt(question_text, j))
      \/ /\ ScoreAt(question_text, i) = ScoreAt(question_text, j)
         /\ i <= j

\* C1: every mapping's (answer, confidence) is the threshold table applied
\* to the top score s of the retained evidence: nothing retained gives
\* ("Insufficient Evidence", NOT_FOUND) and an empty evidence sequence;
\* s > 0.6 gives HIGH and "Yes - " + the first 200 characters of the top
\* evidence text + "..."; 0.4 < s <= 0.6 gives MEDIUM and "Partially
\* Addressed - See evidence"; s <= 0.4 gives LOW and "Insufficient
\* Evidence"; confidence is NOT_FOUND exactly when the evidence is empty.
C1_ThresholdTable ==
  Mapped =>
    \A k \in DOMAIN question_mappings :
      LET mapping == question_mappings[k]
          kept == RetainedAt(mapping.question)
      IN /\ (mapping.confidence = "NOT_FOUND") <=> (mapping.evidence = <<>>)
         /\ IF kept = {}
            THEN /\ mapping.answer = "Insufficient Evidence"
                 /\ mapping.confidence = "NOT_FOUND"
            ELSE LET top == TopAt(mapping.question, kept)
                     s == ScoreAt(mapping.question, top)
                     text == evidence_library[top].text
                 IN IF ScoreGt(s, <<3, 5>>)
                    THEN /\ mapping.confidence = "HIGH"
                         /\ mapping.answer =
                              "Yes - " \o SubSeq(text, 1, Min(200, Len(text)))
                              \o "..."
                    ELSE IF ScoreGt(s, <<2, 5>>)
                         THEN /\ mapping.confidence = "MEDIUM"
                              /\ mapping.answer =
                                   "Partially Addressed - See evidence"
                         ELSE /\ mapping.confidence = "LOW"
                              /\ mapping.answer = "Insufficient Evidence"

\* a run whose mappings show a HIGH answer cut at 200 characters, and a top
\* score of exactly 0.6 answered MEDIUM
C1_Witness ==
  /\ Mapped
  /\ \E k \in DOMAIN question_mappings :
       LET mapping == question_mappings[k]
       IN /\ mapping.confidence = "HIGH"
          /\ Len(mapping.evidence[1].evidence_text) > 200
          /\ Len(mapping.answer) = 209
  /\ \E k \in DOMAIN question_mappings :
       LET mapping == question_mappings[k]
       IN /\ mapping.confidence = "MEDIUM"
          /\ mapping.evidence[1].similarity_score = <<3, 5>>

\* what the mapper records of library item i for a question text
MatchedAt(question_text, i) ==
  [evidence_text |-> evidence_library[i].text,
   source |-> evidence_library[i].source,
   keywords |-> IF "keywords" \in DOMAIN evidence_library[i]
                THEN evidence_library[i].keywords ELSE <<>>,
   similarity_score |-> ScoreAt(question_text, i),
   evidence_type |-> IF "type" \in DOMAIN evidence_library[i]
                     THEN evidence_library[i].type ELSE "unknown"]

\* the place of retained item i in the descending order that keeps items
\* of equal score in library order
PlaceOf(question_text, kept, i) ==
  1 + Cardinality(
        {j \in kept :
           \/ ScoreGt(ScoreAt(question_text, j), ScoreAt(question_text, i))
           \/ /\ ScoreAt(question_text, j) = ScoreAt(question_text, i)
              /\ j < i})

\* C5: a mapping's evidence is the first 5 (or all, if fewer) of the
\* library items scoring >= threshold, in descending score order with
\* equal scores in library order: at most 5 items, each >= threshold,
\* scores non-increasing, ties in library order, no retained item left out
\* outscoring an included one.
C5_TopFiveOfRetained ==
  Mapped =>
    \A k \in DOMAIN question_mappings :
      LET mapping == question_mappings[k]
          kept == RetainedAt(mapping.question)
      IN /\ Len(mapping.evidence) = Min(5, Cardinality(kept))
         /\ \A i \in kept :
              PlaceOf(mapping.question, kept, i) <= 5 =>
                mapping.evidence[PlaceOf(mapping.question, kept, i)]
                  = MatchedAt(mapping.question, i)
         /\ \A a, b \in DOMAIN mapping.evidence :
              a < b => ScoreGe(mapping.evidence[a].similarity_score,
                               mapping.evidence[b].similarity_score)
         /\ \A a \in DOMAIN mapping.evidence :
              ScoreGe(mapping.evidence[a].similarity_score, threshold)

\* 6 items retained, 5 kept, two of them of equal score
C5_Witness ==
  /\ Mapped
  /\ \E k \in DOMAIN question_mappings :
       LET mapping == question_mappings[k]
       IN /\ Cardinality(RetainedAt(mapping.question)) = 6
          /\ Len(mapping.evidence) = 5
          /\ \E a \in 1..4 :
               mapping.evidence[a].similarity_score
                 = mapping.evidence[a + 1].similarity_score
          /\ \E a \in 1..4 :
               ScoreGt(mapping.evidence[a].similarity_score,
                       mapping.evidence[a + 1].similarity_score)

ConfidenceRank(confidence) ==
  CASE confidence = "HIGH" -> 3
    [] confidence = "MEDIUM" -> 2
    [] confidence = "LOW" -> 1
    [] OTHER -> 0

\* the mapping's evidence outscores every item of evidence `other`
Outscores(mapping, other) ==
  \E a \in DOMAIN mapping.evidence :
    \A b \in DOMAIN other.evidence :
      ScoreGt(mapping.evidence[a].similarity_score,
              other.evidence[b].similarity_score)

\* mappings of other runs: every pool question against the empty library
\* and against each one-item library, with either scorer, at every
\* threshold
OtherRuns ==
  {MapQuestion(m, q, library, thr, <<>>).mapping :
     m \in {"None", "encoder"}, q \in QuestionPool,
     library \in {<<>>} \cup {<<e>> : e \in RankedPool},
     thr \in Thresholds}

\* C6: for mappings A and B of the same or of different runs, if A's top
\* score is greater than B's then A's confidence ranks at least as high
\* as B's (HIGH > MEDIUM > LOW > NOT_FOUND), and a mapping without
\* evidence ranks below every mapping with evidence.
C6_ConfidenceMonotone ==
  Mapped =>
    \A k \in DOMAIN question_mappings :
      \A B \in Range(question_mappings) \cup OtherRuns :
        LET A == question_mappings[k]
        IN /\ (A.evidence # <<>> /\ B.evidence # <<>> /\ Outscores(A, B))
                => ConfidenceRank(A.confidence) >= ConfidenceRank(B.confidence)
           /\ (A.evidence # <<>> /\ B.evidence # <<>> /\ Outscores(B, A))
                => ConfidenceRank(B.confidence) >= ConfidenceRank(A.confidence)
           /\ (A.evidence # <<>> /\ B.evidence = <<>>)
                => ConfidenceRank(A.confidence) > ConfidenceRank(B.confidence)
           /\ (A.evidence = <<>> /\ B.evidence # <<>>)
                => ConfidenceRank(B.confidence) > ConfidenceRank(A.confidence)

\* one run with a mapping without evidence and two mappings with
\* evidence, the higher-scoring one of higher confidence
C6_Witness ==
  /\ Mapped
  /\ \E a, b, c \in DOMAIN question_mappings :
       /\ question_mappings[a].evidence # <<>>
       /\ question_mappings[b].evidence # <<>>
       /\ question_mappings[c].evidence = <<>>
       /\ Outscores(question_mappings[a], question_mappings[b])
       /\ ConfidenceRank(question_mappings[a].confidence)
            > ConfidenceRank(question_mappings[b].confidence)

\* C7: gaps holds the no-evidence gap iff nothing was retained, the
\* weak-evidence gap iff something was retained and the top score is below
\* 0.4, the single-source gap iff fewer than 2 items were retained, and
\* nothing else.
C7_GapDerivation ==
  Mapped =>
    \A k \in DOMAIN question_mappings :
      LET mapping == question_mappings[k]
          kept == RetainedAt(mapping.question)
          gaps == Range(mapping.gaps)
      IN /\ (GapNoEvidence \in gaps) <=> (kept = {})
         /\ (GapWeak \in gaps) <=>
              /\ kept # {}
              /\ \A i \in kept : ScoreLt(ScoreAt(mapping.question, i), <<2, 5>>)
         /\ (GapSingle \in gaps) <=> (Cardinality(kept) < 2)
         /\ gaps \subseteq {GapNoEvidence, GapWeak, GapSingle}
         /\ Len(mapping.gaps) = Cardinality(gaps)

\* a top score of exactly 0.4: confidence LOW and no weak-evidence gap;
\* beside it a mapping whose evidence is weak
C7_Witness ==
  /\ Mapped
  /\ \E k \in DOMAIN question_mappings :
       LET mapping == question_mappings[k]
       IN /\ mapping.evidence # <<>>
          /\ mapping.evidence[1].similarity_score = <<2, 5>>
          /\ mapping.confidence = "LOW"
          /\ GapWeak \notin Range(mapping.gaps)
  /\ \E k \in DOMAIN question_mappings :
       GapWeak \in Range(question_mappings[k].gaps)

\* C8 as amended: a mapping has at most two gaps, the no-evidence gap and
\* the weak-evidence gap never together, so that the gap counts are 0, 1
\* and 2 and never 3.
C8_AtMostTwoGaps ==
  Mapped =>
    \A k \in DOMAIN question_mappings :
      /\ Len(question_mappings[k].gaps) <= 2
      /\ ~ (/\ GapNoEvidence \in Range(question_mappings[k].gaps)
            /\ GapWeak \in Range(question_mappings[k].gaps))

\* one run whose mappings have 0, 1 and 2 gaps
C8_Witness ==
  /\ Mapped
  /\ \A n \in 0..2 :
       \E k \in DOMAIN question_mappings : Len(question_mappings[k].gaps) = n

\* C8 as stated: the three checks are independent and three gaps are
\* reachable.  The gaps are a function of the retained list alone, three
\* gaps include the no-evidence gap, and that gap needs the empty list: so
\* three gaps are reachable iff the empty list yields all three.
C8_ThreeGapsReachable ==
  Mapped =>
    \A k \in DOMAIN question_mappings :
      question_mappings[k].evidence = <<>>
        => Len(question_mappings[k].gaps) = 3

\* C9: the mapper returns one mapping per question, in question order,
\* carrying the question's id, and each mapping is the one the mapper
\* returns for that question alone with the same library and threshold.
C9_PerQuestion ==
  Mapped =>
    /\ Len(question_mappings) = Len(questions)
    /\ \A k \in DOMAIN questions :
         /\ question_mappings[k].question_id = questions[k].id
         /\ <<question_mappings[k]>> =
              map_evidence_to_questions(<<>>, model, <<questions[k]>>,
                                        evidence_library, threshold)

\* three questions mapped against a library that serves them differently
C9_Witness ==
  /\ Mapped
  /\ Len(questions) = 3
  /\ Len(question_mappings) = 3
  /\ question_mappings[1].evidence # <<>>
  /\ question_mappings[2].evidence # question_mappings[1].evidence
  /\ question_mappings[3].evidence # question_mappings[2].evidence

(***************************************************************************)
(* Properties of the assessor                                              *)
(***************************************************************************)
\* assess has returned
Assessed == pc = "assessed"

\* the category name as a risk carries it
CategoryTitles ==
  [i \in DOMAIN RISK_CATEGORIES |-> Title(Spaced(RISK_CATEGORIES[i].name))]

CategoryTitle(i) == CategoryTitles[i]

\* the positions of the assessed mappings whose question falls in category i
MembersOf(i) ==
  {k \in DOMAIN mappings_arg :
     IF mappings_arg[k].question \in AssessedQuestionTexts
     THEN i \in CategoriesOfPools[mappings_arg[k].question]
     ELSE MatchesKeywords(mappings_arg[k].question,
                          RISK_CATEGORIES[i].keywords)}

LowMembersOf(i) ==
  {k \in MembersOf(i) : mappings_arg[k].confidence \in {"LOW", "NOT_FOUND"}}

\* C2: for each of the 7 categories with n matching questions, `low` of
\* them LOW or NOT_FOUND, a risk of that category is reported iff n > 0 and
\* low > 0.5 * n, and the reported risk is HIGH iff low > 0.7 * n, MEDIUM
\* otherwise.
C2_SeverityLaw ==
  Assessed =>
    \A i \in DOMAIN RISK_CATEGORIES :
      LET n == Cardinality(MembersOf(i))
          low == Cardinality(LowMembersOf(i))
          emitted == {r \in DOMAIN risk_assessment.risks :
                        risk_assessment.risks[r].category = CategoryTitle(i)}
      IN /\ (emitted # {}) <=> (n > 0 /\ 2 * low > n)
         /\ \A r \in emitted :
              risk_assessment.risks[r].severity =
                IF 10 * low > 7 * n THEN "HIGH" ELSE "MEDIUM"

\* the weights of the assessed mappings, summed
WeightSum ==
  3 * Cardinality({k \in DOMAIN mappings_arg :
                     mappings_arg[k].confidence = "HIGH"})
  + 2 * Cardinality({k \in DOMAIN mappings_arg :
                       mappings_arg[k].confidence = "MEDIUM"})
  + Cardinality({k \in DOMAIN mappings_arg :
                   mappings_arg[k].confidence = "LOW"})

\* C3: the reported score (kept in tenths) is 100 * (sum of weights) /
\* (3 * n) to one decimal place, that is within half a tenth of it, and
\* lies in [0, 100]; no mappings give score 0 and level UNKNOWN.
C3_ScoreFormula ==
  Assessed =>
    LET n == Len(mappings_arg)
        score == risk_assessment.risk_score
        exact == 1000 * WeightSum
    IN IF n = 0
       THEN score = 0 /\ risk_assessment.overall_risk = "UNKNOWN"
       ELSE /\ 0 <= score /\ score <= 1000
            /\ 2 * (3 * n * score - exact) <= 3 * n
            /\ 2 * (exact - 3 * n * score) <= 3 * n

\* an assessment of 3 mappings whose weights sum to 6: score 66.7
C3_Witness ==
  /\ Assessed
  /\ Len(mappings_arg) = 3
  /\ WeightSum = 6
  /\ risk_assessment.risk_score = 667

\* C4: with at least one mapping, overall_risk is the level of the
\* reported risk_score: LOW RISK from 70, MEDIUM RISK from 50, HIGH RISK
\* from 30, CRITICAL RISK below.
C4_LevelOfReportedScore ==
  (Assessed /\ Len(mappings_arg) >= 1) =>
    risk_assessment.overall_risk =
      IF risk_assessment.risk_score >= 700 THEN "LOW RISK"
      ELSE IF risk_assessment.risk_score >= 500 THEN "MEDIUM RISK"
           ELSE IF risk_assessment.risk_score >= 300 THEN "HIGH RISK"
                ELSE "CRITICAL RISK"

\* the question text, lower-cased, holds one of the keywords of category i
\* at some position
InCategory(i, question_text) ==
  LET lowered == Lower(question_text)
  IN \E k \in DOMAIN RISK_CATEGORIES[i].keywords :
       LET kw == RISK_CATEGORIES[i].keywords[k]
       IN \E p \in 1..(Len(lowered) - Len(kw) + 1) :
            SubSeq(lowered, p, p + Len(kw) - 1) = kw

\* the j-th smallest of a set of positions
NthOf(positions, j) ==
  CHOOSE k \in positions : Cardinality({x \in positions : x <= k}) = j

\* C10: the questions of each of the 7 categories are exactly the mappings
\* whose lower-cased question text contains one of the category's
\* keywords: the category's risk, reported when more than half of them are
\* LOW or NOT_FOUND, counts them in its description and lists the ids of
\* the LOW or NOT_FOUND ones in order.  A mapping that matches no category
\* is listed by no risk; one that matches several is counted in each.
C10_CategoryGrouping ==
  Assessed =>
    \A i \in DOMAIN RISK_CATEGORIES :
      LET members == {k \in DOMAIN mappings_arg :
                        InCategory(i, mappings_arg[k].question)}
          lows == {k \in members :
                     mappings_arg[k].confidence \in {"LOW", "NOT_FOUND"}}
          n == Cardinality(members)
          low == Cardinality(lows)
          emitted == {r \in DOMAIN risk_assessment.risks :
                        risk_assessment.risks[r].category = CategoryTitle(i)}
      IN /\ Cardinality(emitted) = IF n > 0 /\ 2 * low > n THEN 1 ELSE 0
         /\ \A r \in emitted :
              /\ risk_assessment.risks[r].description =
                   "Insufficient evidence for " \o IntToStr(low) \o "/"
                   \o IntToStr(n) \o " " \o Spaced(RISK_CATEGORIES[i].name)
                   \o " controls"
              /\ risk_assessment.risks[r].affected_questions =
                   [j \in 1..low |-> mappings_arg[NthOf(lows, j)].question_id]

\* an assessment with a question of no category, listed by no risk, and a
\* low-confidence question of several categories, listed by several risks
C10_Witness ==
  /\ Assessed
  /\ \E k \in DOMAIN mappings_arg :
       /\ \A i \in DOMAIN RISK_CATEGORIES :
            ~ InCategory(i, mappings_arg[k].question)
       /\ \A r \in DOMAIN risk_assessment.risks :
            mappings_arg[k].question_id
              \notin Range(risk_assessment.risks[r].affected_questions)
  /\ \E k \in DOMAIN mappings_arg :
       /\ Cardinality({i \in DOMAIN RISK_CATEGORIES :
                         InCategory(i, mappings_arg[k].question)}) >= 2
       /\ Cardinality({r \in DOMAIN risk_assessment.risks :
                         mappings_arg[k].question_id
                           \in Range(risk_assessment.risks[r].affected_questions)})
            >= 2

\* the place of a risk's category among the 7 categories
CategoryPlace(risk) ==
  CHOOSE i \in DOMAIN RISK_CATEGORIES : CategoryTitle(i) = risk.category

\* C11: in the risks of an assessment no MEDIUM risk precedes a HIGH risk,
\* risks of equal severity stand in the order of the category table
\* (data_protection, access_control, monitoring, incident_response,
\* compliance, vulnerability_management, vendor_management), and no two
\* risks have the same category.
C11_RisksOrdered ==
  Assessed =>
    LET risks == risk_assessment.risks
    IN /\ \A j \in DOMAIN risks :
            /\ risks[j].severity \in {"HIGH", "MEDIUM"}
            /\ \E i \in DOMAIN RISK_CATEGORIES :
                 CategoryTitle(i) = risks[j].category
       /\ \A j, k \in DOMAIN risks :
            j < k =>
              /\ ~(risks[j].severity = "MEDIUM" /\ risks[k].severity = "HIGH")
              /\ risks[j].category # risks[k].category
              /\ risks[j].severity = risks[k].severity
                   => CategoryPlace(risks[j]) < CategoryPlace(risks[k])

\* a MEDIUM risk of an earlier category stands after two HIGH risks of
\* later categories
C11_Witness ==
  /\ Assessed
  /\ \E j, k, m \in DOMAIN risk_assessment.risks :
       LET risks == risk_assessment.risks
       IN /\ j < k /\ k < m
          /\ risks[j].severity = "HIGH"
          /\ risks[k].severity = "HIGH"
          /\ risks[m].severity = "MEDIUM"
          /\ CategoryPlace(risks[m]) < CategoryPlace(risks[k])
          /\ CategoryPlace(risks[j]) < CategoryPlace(risks[m])

\* the number of assessed mappings without any evidence
NotFoundCount ==
  Cardinality({k \in DOMAIN mappings_arg :
                 mappings_arg[k].confidence = "NOT_FOUND"})

\* C12: the recommendations are one Critical recommendation per HIGH risk,
\* in the order of the risks and none for a MEDIUM risk, followed by one
\* High-priority 'Documentation' recommendation exactly when more than 5
\* mappings are NOT_FOUND; their number is the number of HIGH risks plus
\* that one.
C12_Recommendations ==
  Assessed =>
    LET recommendations == risk_assessment.recommendations
        high == SelectSeq(risk_assessment.risks,
                          LAMBDA r : r.severity = "HIGH")
        documentation == IF NotFoundCount > 5 THEN 1 ELSE 0
    IN /\ Len(recommendations) = Len(high) + documentation
       /\ \A j \in DOMAIN high :
            /\ recommendations[j].priority = "Critical"
            /\ recommendations[j].category = high[j].category
            /\ recommendations[j].rationale = high[j].description
       /\ \A j \in DOMAIN recommendations :
            j > Len(high) =>
              /\ recommendations[j].priority = "High"
              /\ recommendations[j].category = "Documentation"

\* exactly 5 mappings are NOT_FOUND, a MEDIUM risk stands beside HIGH
\* risks, and only the HIGH risks have a recommendation
C12_Witness ==
  /\ Assessed
  /\ NotFoundCount = 5
  /\ \E j \in DOMAIN risk_assessment.risks :
       risk_assessment.risks[j].severity = "MEDIUM"
  /\ Len(risk_assessment.recommendations) >= 2
  /\ \A j \in DOMAIN risk_assessment.recommendations :
       risk_assessment.recommendations[j].priority = "Critical"

(***************************************************************************)
(* Properties of repeated runs of the pipeline                             *)
(***************************************************************************)
\* C13: the core has no fatal error path: for any parsed documents (PDF
\* pages that name a certification such as ISO 27001 included) and any
\* question list, extract_all, then map_evidence_to_questions on the library
\* it returns, then assess complete with one mapping per question; every
\* item that extract_all puts in the library carries the text field that the
\* mapper reads.
C13_NoFatalErrorPath ==
  /\ pc # "map_error"
  /\ \A i \in DOMAIN evidence_library : "text" \in DOMAIN evidence_library[i]
  /\ call.op = "map_evidence_to_questions"
       => Len(question_mappings) = Len(call.args.questions)

(***************************************************************************)
(* Properties of runs on empty inputs                                      *)
(***************************************************************************)
\* the last map call had at least one question and an empty library
EmptyLibraryRun ==
  /\ pc # "collect"
  /\ questions # <<>>
  /\ evidence_library = <<>>

\* C14: mapping n >= 1 questions against an empty evidence library is not
\* an error and gives n mappings, all of confidence NOT_FOUND and without
\* evidence; assessing them gives risk_score 0 and overall_risk CRITICAL
\* RISK.
C14_EmptyEvidenceRun ==
  EmptyLibraryRun =>
    /\ pc # "map_error"
    /\ Len(question_mappings) = Len(questions)
    /\ \A k \in DOMAIN question_mappings :
         /\ question_mappings[k].confidence = "NOT_FOUND"
         /\ question_mappings[k].evidence = <<>>
    /\ Assessed =>
         /\ risk_assessment.risk_score = 0
         /\ risk_assessment.overall_risk = "CRITICAL RISK"

\* three questions were mapped against the empty library and assessed
C14_Witness ==
  /\ EmptyLibraryRun
  /\ Assessed
  /\ Len(questions) = 3
  /\ Len(mappings_arg) = 3

\* C15 as amended: an empty question list gives overall_risk UNKNOWN,
\* risk_score 0 and no risks; an empty evidence library under n >= 1
\* questions gives risk_score 0 with overall_risk CRITICAL RISK, and a HIGH
\* risk for every category that one of the questions falls in.
C15_EmptyInputDefaults ==
  Assessed =>
    /\ questions = <<>> =>
         /\ risk_assessment.overall_risk = "UNKNOWN"
         /\ risk_assessment.risk_score = 0
         /\ risk_assessment.risks = <<>>
    /\ EmptyLibraryRun =>
         /\ risk_assessment.overall_risk = "CRITICAL RISK"
         /\ risk_assessment.risk_score = 0
         /\ \A i \in DOMAIN RISK_CATEGORIES :
              MembersOf(i) # {} <=>
                \E j \in DOMAIN risk_assessment.risks :
                  /\ risk_assessment.risks[j].category = CategoryTitle(i)
                  /\ risk_assessment.risks[j].severity = "HIGH"

\* questions were assessed on the empty library and risks are reported
C15_Witness ==
  /\ Assessed
  /\ EmptyLibraryRun
  /\ risk_assessment.risks # <<>>
  /\ risk_assessment.overall_risk = "CRITICAL RISK"

\* C15 as stated: whenever the question list is empty or the evidence
\* library is empty, the assessment has overall_risk UNKNOWN, risk_score 0
\* and an empty risks list.
C15_UnknownOnEmptyInput ==
  (Assessed /\ (questions = <<>> \/ evidence_library = <<>>)) =>
    /\ risk_assessment.overall_risk = "UNKNOWN"
    /\ risk_assessment.risk_score = 0
    /\ risk_assessment.risks = <<>>

(***************************************************************************)
(* Properties of the assessment as a function of its arguments             *)
(***************************************************************************)
\* C16: assessing the same mappings, metadata and web results again, in
\* the same or in another run of the program, yields the same assessment,
\* the order of the risks, of each risk's gaps, of the threats and their
\* evidence gaps and of the recommendations included: the order is fixed by
\* the order of the arguments alone.
C16_SameResultInEveryRun ==
  Assessed =>
    \A seed \in HashSeeds :
      risk_assessment \in
        AssessValues(seed, call.args.question_mappings,
                     OrEmpty(call.args.vendor_metadata),
                     OrEmpty(call.args.web_search_results))

\* the arguments of the last assess call, as assess stores them
AssessedMetadata == OrEmpty(call.args.vendor_metadata)
AssessedWeb == OrEmpty(call.args.web_search_results)

\* C17: the extractor, the mapper and the assessor keep nothing from one
\* call to the next: whatever calls were made before on the same objects,
\* what extract_all, map_evidence_to_questions and assess return is what
\* new objects return for the arguments of that call (an assess call without
\* metadata and web results that follows one with both reports no
\* Historical Incident threat, no attack surface and 0 public incidents),
\* and what an earlier call returned is not altered by a later call.
C17_StatelessBetweenCalls ==
  /\ call.op = "extract_all" =>
       evidence_library = extract_all(<<>>, call.args.parsed_documents)
  /\ (call.op = "map_evidence_to_questions" /\ pc # "map_error") =>
       question_mappings =
         map_evidence_to_questions(<<>>, model, call.args.questions,
                                   call.args.evidence_library,
                                   call.args.threshold)
  /\ call.op = "assess" =>
       /\ risk_assessment \in
            AssessValues(hashseed, call.args.question_mappings,
                         AssessedMetadata, AssessedWeb)
       /\ (call.args.vendor_metadata = None
           /\ call.args.web_search_results = None) =>
            /\ \A j \in DOMAIN risk_assessment.threat_model.threats :
                 risk_assessment.threat_model.threats[j].category
                   # "Historical Incident"
            /\ risk_assessment.threat_model.attack_surfaces = <<>>
            /\ risk_assessment.public_incidents_found = 0
  /\ \A field \in DOMAIN earlier :
       earlier[field] # Unset => earlier[field].now = earlier[field].returned

\* an assess call without metadata and web results follows one that
\* reported incidents and attack surfaces, both on the mappings of
\* questions against the evidence extracted from a document
C17_Witness ==
  /\ call.op = "assess"
  /\ call.args.vendor_metadata = None
  /\ call.args.web_search_results = None
  /\ call.args.question_mappings # <<>>
  /\ evidence_library # <<>>
  /\ earlier.risk_assessment # Unset
  /\ earlier.risk_assessment.returned.public_incidents_found > 0
  /\ earlier.risk_assessment.returned.threat_model.attack_surfaces # <<>>
  /\ earlier.risk_assessment.returned # risk_assessment

StridePairs ==
  {<<"Data Protection", "Information Disclosure">>,
   <<"Access Control", "Elevation of Privilege">>,
   <<"Monitoring", "Repudiation">>,
   <<"Incident Response", "Denial of Service">>,
   <<"Compliance", "Tampering">>,
   <<"Vulnerability Management", "Spoofing">>,
   <<"Vendor Management", "Elevation of Privilege">>}

\* the incidents handed to the last assess call
AssessedIncidents == Get(AssessedWeb, "incidents", <<>>)

\* C19: the threats are one threat per risk, in the order of the risks,
\* with the risk's severity and description and the STRIDE category that
\* the 7-entry table gives for the risk's category (the default is never
\* used), followed by one 'Historical Incident' threat of severity HIGH for
\* each of the first min(5, k) of the k incidents supplied; there are
\* |risks| + min(5, k) threats, and public_incidents_found is k.
C19_Threats ==
  Assessed =>
    LET risks == risk_assessment.risks
        threats == risk_assessment.threat_model.threats
        k == Len(AssessedIncidents)
        shown == IF k < 5 THEN k ELSE 5
    IN /\ Len(threats) = Len(risks) + shown
       /\ risk_assessment.public_incidents_found = k
       /\ \A j \in DOMAIN risks :
            /\ threats[j].severity = risks[j].severity
            /\ threats[j].description = risks[j].description
            /\ <<risks[j].category, threats[j].category>> \in StridePairs
       /\ \A j \in 1..shown :
            /\ threats[Len(risks) + j].category = "Historical Incident"
            /\ threats[Len(risks) + j].severity = "HIGH"
            /\ threats[Len(risks) + j].description =
                 "Past security incident: " \o AssessedIncidents[j].title

\* six incidents were supplied, and the risks (a MEDIUM one among them)
\* cover five STRIDE categories
C19_Witness ==
  /\ Assessed
  /\ Len(AssessedIncidents) = 6
  /\ \E j \in DOMAIN risk_assessment.risks :
       risk_assessment.risks[j].severity = "MEDIUM"
  /\ Cardinality({risk_assessment.threat_model.threats[j].category :
                    j \in DOMAIN risk_assessment.risks}) = 5
  /\ Len(risk_assessment.threat_model.threats)
       = Len(risk_assessment.risks) + 5

\* C20: the mitigations correspond one to one, in order, to the threats of
\* severity HIGH or CRITICAL: each of these yields one mitigation whose
\* threat_category is the threat's category and whose specific_controls is
\* the fixed list of controls of that category; a MEDIUM threat yields none.
C20_Mitigations ==
  Assessed =>
    LET threats == risk_assessment.threat_model.threats
        mitigations == risk_assessment.threat_model.mitigations_needed
        severe == SelectSeq(threats,
                            LAMBDA t : t.severity \in {"HIGH", "CRITICAL"})
    IN /\ Len(mitigations) = Len(severe)
       /\ \A j \in DOMAIN severe :
            /\ mitigations[j].threat_category = severe[j].category
            /\ mitigations[j].specific_controls
                 = _suggest_controls(severe[j].category)
            /\ Len(mitigations[j].specific_controls) = 3
            /\ severe[j].category = "Historical Incident" =>
                 mitigations[j].specific_controls =
                   <<"Incident response plan review",
                     "Security control validation", "Third-party audit">>
            /\ severe[j].category = "Repudiation" =>
                 mitigations[j].specific_controls =
                   <<"Comprehensive audit logging", "Digital signatures",
                     "Time stamping">>

\* a MEDIUM threat stands between HIGH threats of risks and of incidents,
\* and only the HIGH ones have a mitigation
C20_Witness ==
  /\ Assessed
  /\ LET threats == risk_assessment.threat_model.threats
     IN /\ \E j, m, h \in DOMAIN threats :
             /\ j < m /\ m < h
             /\ threats[j].severity = "HIGH"
             /\ threats[m].severity = "MEDIUM"
             /\ threats[h].category = "Historical Incident"
        /\ Len(risk_assessment.threat_model.mitigations_needed)
             = Len(threats) - 1

(***************************************************************************)
(* Properties of the attack surfaces                                       *)
(***************************************************************************)
\* the metadata field is there and is not the empty string
FieldGiven(field) ==
  field \in DOMAIN AssessedMetadata /\ AssessedMetadata[field] # ""

\* the lower-cased metadata field contains one of the terms
FieldNames(field, terms) ==
  \E t \in terms : Contains(Lower(AssessedMetadata[field]), t)

\* C21: the attack surfaces are at most 3, in the order Data Storage,
\* System Integration, Service Access, each present iff its metadata field
\* (data_stored, integrations, services) is non-empty, and none without
\* vendor metadata; Data Storage has exposure HIGH iff data_stored contains,
\* in any case of letters, one of pii, credential, password, secret, System
\* Integration iff integrations contains one of production, database, api,
\* and MEDIUM otherwise; Service Access is always MEDIUM.
C21_AttackSurfaces ==
  Assessed =>
    LET surfaces == risk_assessment.threat_model.attack_surfaces
        fields == <<"data_stored", "integrations", "services">>
        names == <<"Data Storage", "System Integration", "Service Access">>
        terms == <<{"pii", "credential", "password", "secret"},
                   {"production", "database", "api"}, {}>>
        given == SelectSeq(<<1, 2, 3>>, LAMBDA f : FieldGiven(fields[f]))
    IN /\ Len(surfaces) = Len(given)
       /\ \A j \in DOMAIN given :
            /\ surfaces[j].surface = names[given[j]]
            /\ surfaces[j].exposure_level =
                 IF FieldNames(fields[given[j]], terms[given[j]])
                 THEN "HIGH" ELSE "MEDIUM"
       /\ call.args.vendor_metadata = None => surfaces = <<>>

\* all three surfaces are reported, Data Storage with exposure HIGH for
\* upper-case PASSWORDS and System Integration with exposure MEDIUM
C21_Witness ==
  /\ Assessed
  /\ AssessedMetadata # <<>>
  /\ FieldGiven("data_stored")
  /\ AssessedMetadata.data_stored = "user PASSWORDS"
  /\ Len(risk_assessment.threat_model.attack_surfaces) = 3
  /\ risk_assessment.threat_model.attack_surfaces[1].exposure_level = "HIGH"
  /\ risk_assessment.threat_model.attack_surfaces[2].exposure_level = "MEDIUM"

(***************************************************************************)
(* calculate_similarity on a mapper without an encoder: the question and  *)
(* the evidence text are written from up to MaxTokens tokens each         *)
(***************************************************************************)
Tokens == {"Data", "data", "mfa", ""}

MaxTokens == 2

\* the tokens in order, each followed by a blank and a tab
RECURSIVE Sentence(_)
Sentence(tokens) ==
  IF tokens = <<>> THEN ""
  ELSE tokens[1] \o " \t" \o Sentence(Tail(tokens))

\* the record of a call together with the value it returned
Returned(op, args, result) == [result |-> result] @@ CallOf(op, args)

\* mapper.calculate_similarity(question, evidence_text)
CalculateSimilarity(question_tokens, evidence_tokens) ==
  /\ pc = "collect"
  /\ \E question \in {Sentence(question_tokens)},
        evidence_text \in {Sentence(evidence_tokens)} :
       call' = Returned("calculate_similarity",
                        [question |-> question,
                         evidence_text |-> evidence_text,
                         question_tokens |-> question_tokens,
                         evidence_tokens |-> evidence_tokens],
                        calculate_similarity(model, question, evidence_text))
  /\ pc' = "scored"
  /\ UNCHANGED <<model, hashseed, questions, evidence_library, threshold,
                 question_mappings, mappings_arg, vendor_metadata,
                 web_search_results, risk_assessment, earlier, agent>>

SimilarityNext ==
  /\ pc = "collect"
  /\ \E n \in 0..MaxTokens, k \in 0..MaxTokens :
       \E question_tokens \in [1..n -> Tokens],
          evidence_tokens \in [1..k -> Tokens] :
         CalculateSimilarity(question_tokens, evidence_tokens)

SpecSimilarity == DocumentsInit /\ [][SimilarityNext]_vars

(***************************************************************************)
(* The web search agent: search providers                                 *)
(***************************************************************************)
\* what a provider does when it is asked: DuckDuckGo's library is missing,
\* the request fails, or the provider answers with a list of hits; the two
\* API providers may also lack their keys in the environment
Failed(status) == [status |-> status]
Answered(hits) == [status |-> "ok", hits |-> hits]

\* the outcome of a method: an exception or a returned value
Raises(exception) == [raised |-> TRUE, exception |-> exception]
Returns(value) == [raised |-> FALSE, value |-> value]

\* WebSearchAgent._search_duckduckgo: the library's hits as results; both
\* except clauses raise again
_search_duckduckgo(provider) ==
  CASE provider.status = "ImportError" ->
         Raises("ImportError")
    [] provider.status = "error" ->
         Raises("Exception")
    [] OTHER ->
         Returns([i \in DOMAIN provider.hits |->
                    [title |-> Get(provider.hits[i], "title", ""),
                     snippet |-> Get(provider.hits[i], "body", ""),
                     url |-> Get(provider.hits[i], "href", "")]])

\* WebSearchAgent._search_google_custom: [] without the two keys and on any
\* exception
_search_google_custom(provider) ==
  CASE provider.status = "unconfigured" -> Returns(<<>>)
    [] provider.status = "error" -> Returns(<<>>)
    [] OTHER ->
         Returns([i \in DOMAIN provider.hits |->
                    [title |-> Get(provider.hits[i], "title", ""),
                     snippet |-> Get(provider.hits[i], "snippet", ""),
                     url |-> Get(provider.hits[i], "link", "")]])

\* WebSearchAgent._search_bing: [] without the key and on any exception
_search_bing(provider) ==
  CASE provider.status = "unconfigured" -> Returns(<<>>)
    [] provider.status = "error" -> Returns(<<>>)
    [] OTHER ->
         Returns([i \in DOMAIN provider.hits |->
                    [title |-> Get(provider.hits[i], "name", ""),
                     snippet |-> Get(provider.hits[i], "snippet", ""),
                     url |-> Get(provider.hits[i], "url", "")]])

\* WebSearchAgent._perform_search: the results it returns and the providers
\* it asked, in order; an exception of DuckDuckGo ends the try block with
\* results still []
_perform_search(duckduckgo, google, bing) ==
  LET first == _search_duckduckgo(duckduckgo)
      second == _search_google_custom(google)
      third == _search_bing(bing)
  IN IF first.raised
     THEN [results |-> <<>>, asked |-> <<"duckduckgo">>]
     ELSE IF first.value # <<>>
          THEN [results |-> first.value, asked |-> <<"duckduckgo">>]
          ELSE IF second.value # <<>>
               THEN [results |-> second.value,
                     asked |-> <<"duckduckgo", "google">>]
               ELSE [results |-> third.value,
                     asked |-> <<"duckduckgo", "google", "bing">>]

DuckDuckGoHits ==
  {<<>>,
   <<[title |-> "Acme trust center", body |-> "Acme encryption",
      href |-> "https://acme.example/trust"]>>,
   <<[title |-> "Acme SOC 2", href |-> "https://acme.example/soc2"],
     [title |-> "Acme docs", body |-> "Acme backup"]>>}

GoogleHits ==
  {<<>>,
   <<[title |-> "Acme security", snippet |-> "Acme audit",
      link |-> "https://g.example/acme"]>>,
   <<[title |-> "Acme gdpr"], [snippet |-> "Acme mfa"]>>}

BingHits ==
  {<<>>,
   <<[name |-> "Acme compliance", snippet |-> "Acme hipaa",
      url |-> "https://b.example/acme"]>>,
   <<[name |-> "Acme backup"], [url |-> "https://b.example/2"]>>}

DuckDuckGoStates ==
  {Failed("ImportError"), Failed("error")}
    \cup {Answered(hits) : hits \in DuckDuckGoHits}

GoogleStates ==
  {Failed("unconfigured"), Failed("error")}
    \cup {Answered(hits) : hits \in GoogleHits}

BingStates ==
  {Failed("unconfigured"), Failed("error")}
    \cup {Answered(hits) : hits \in BingHits}

\* agent._perform_search(query) with the providers in the given states
PerformSearch(duckduckgo, google, bing) ==
  /\ pc = "collect"
  /\ call' = Returned("_perform_search",
                      [duckduckgo |-> duckduckgo, google |-> google,
                       bing |-> bing],
                      _perform_search(duckduckgo, google, bing))
  /\ pc' = "searched"
  /\ UNCHANGED <<model, hashseed, questions, evidence_library, threshold,
                 question_mappings, mappings_arg, vendor_metadata,
                 web_search_results, risk_assessment, earlier, agent>>

ProvidersNext ==
  /\ pc = "collect"
  /\ \E duckduckgo \in DuckDuckGoStates, google \in GoogleStates,
        bing \in BingStates :
       PerformSearch(duckduckgo, google, bing)

SpecProviders == DocumentsInit /\ [][ProvidersNext]_vars

\* str.upper()
RECURSIVE Upper(_)
Upper(s) ==
  IF Len(s) = 0 THEN ""
  ELSE UpperChar(SubSeq(s, 1, 1)) \o Upper(SubSeq(s, 2, Len(s)))

\* any(kw in text for kw in keywords)
AnyIn(text, keywords) == \E kw \in keywords : Contains(text, kw)

(***************************************************************************)
(* The web search agent: search_vendor_security and to_evidence_format    *)
(***************************************************************************)
SECURITY_CONTROL_KEYWORDS ==
  <<"encryption", "authentication", "mfa", "soc 2", "iso 27001",
    "penetration test", "vulnerability scan", "compliance", "certification",
    "audit", "security policy", "access control", "data protection",
    "incident response", "backup", "disaster recovery", "gdpr", "hipaa">>

INCIDENT_KEYWORDS ==
  <<"breach", "hack", "attack", "vulnerability", "exploit", "data leak",
    "security incident", "compromised", "ransomware", "malware">>

\* the terms of the vendor name that are longer than 3 characters and no
\* company suffix, lower-cased
VendorKeyTerms(vendor_name) ==
  {Lower(term) : term \in
     {t \in Words(vendor_name) :
        Len(t) > 3 /\ Lower(t) \notin {"inc", "corp", "ltd", "llc", "the"}}}

\* vendor_name_lower in combined_text or any(term in combined_text ...)
VendorMentioned(vendor_name, combined_text) ==
  \/ Contains(combined_text, Lower(vendor_name))
  \/ AnyIn(combined_text, VendorKeyTerms(vendor_name))

_assess_confidence(url, keyword_count, text) ==
  IF AnyIn(Lower(url), {"aicpa.org", "iso.org", "trustpage.com",
                        "securityscorecard.com"})
  THEN "HIGH"
  ELSE IF keyword_count >= 3 THEN "HIGH"
  ELSE IF \/ AnyIn(Lower(url), {"wikipedia.org", "docs.", "help.",
                                "support."})
          \/ keyword_count = 2
       THEN "MEDIUM"
       ELSE "LOW"

_extract_control_information(results, vendor_name) ==
  LET ControlOf(result) ==
        LET title == Get(result, "title", "")
            snippet == Get(result, "snippet", "")
            url == Get(result, "url", "")
            combined_text == Lower(title \o " " \o snippet)
            matched_keywords ==
              SelectSeq(SECURITY_CONTROL_KEYWORDS,
                        LAMBDA kw : Contains(combined_text, kw))
            confidence ==
              _assess_confidence(url, Len(matched_keywords), combined_text)
            boosted ==
              IF AnyIn(Lower(url), VendorKeyTerms(vendor_name))
              THEN CASE confidence = "LOW" -> "MEDIUM"
                     [] confidence = "MEDIUM" -> "HIGH"
                     [] OTHER -> confidence
              ELSE confidence
        IN IF /\ VendorMentioned(vendor_name, combined_text)
              /\ matched_keywords # <<>>
           THEN <<[title |-> title, snippet |-> snippet, url |-> url,
                   keywords |-> matched_keywords, confidence |-> boosted,
                   vendor_name |-> vendor_name]>>
           ELSE <<>>
  IN Flatten([i \in DOMAIN results |-> ControlOf(results[i])])

\* the positions of the text where the literal starts
StartsOf(text, literal) ==
  {p \in 1..(Len(text) - Len(literal) + 1) :
     SubSeq(text, p, p + Len(literal) - 1) = literal}

IsWordChar(c) ==
  IsLetter(c) \/ (c # "" /\ Contains("0123456789_", c))

\* the positions where \b20\d{2}\b matches
YearStarts(text) ==
  {p \in StartsOf(text, "20") :
     /\ p + 3 <= Len(text)
     /\ Contains("0123456789", CharAt(text, p + 2))
     /\ Contains("0123456789", CharAt(text, p + 3))
     /\ p = 1 \/ ~IsWordChar(CharAt(text, p - 1))
     /\ p + 3 = Len(text) \/ ~IsWordChar(CharAt(text, p + 4))}

\* re.search of `first.*` followed by a match at one of the positions: the
\* dot matches no newline
SearchWithGap(text, firsts, seconds) ==
  \E first \in firsts :
    \E p \in StartsOf(text, first), q \in seconds :
      /\ q >= p + Len(first)
      /\ \A k \in (p + Len(first))..(q - 1) : CharAt(text, k) # "\n"

\* any(re.search(pattern, combined_text) for pattern in incident_indicators)
IsRealIncident(text) ==
  \/ \E verb \in {"breached", "hacked", "compromised", "attacked"} :
       Contains(text, "was " \o verb)
  \/ \E noun \in {"breach", "hack", "attack", "data leak"} :
       \/ Contains(text, "suffered " \o noun)
       \/ Contains(text, "suffered a " \o noun)
  \/ SearchWithGap(text, {"exposed"}, StartsOf(text, "credentials"))
  \/ SearchWithGap(text, {"leaked"}, StartsOf(text, "data"))
  \/ SearchWithGap(text, {"security incident"}, StartsOf(text, "affected"))
  \/ SearchWithGap(text, {"confirmed"}, StartsOf(text, "breach"))
  \/ SearchWithGap(text, {"disclosed"}, StartsOf(text, "vulnerability"))
  \/ SearchWithGap(text, {"announced"}, StartsOf(text, "breach"))
  \/ SearchWithGap(text, {"breach", "incident", "hack"}, YearStarts(text))

_extract_incident_information(results, vendor_name) ==
  LET IncidentOf(result) ==
        LET title == Get(result, "title", "")
            snippet == Get(result, "snippet", "")
            url == Lower(Get(result, "url", ""))
            combined_text == Lower(title \o " " \o snippet)
            matched_keywords ==
              SelectSeq(INCIDENT_KEYWORDS,
                        LAMBDA kw : Contains(combined_text, kw))
            years == YearStarts(combined_text)
            first_year == CHOOSE p \in years : \A q \in years : p <= q
        IN IF /\ VendorMentioned(vendor_name, combined_text)
              /\ ~AnyIn(url, {"trust", "security-rating", "vendor-risk",
                              "security-scorecard", "compliance",
                              "certification", "trust-center",
                              "security-practices", "/careers/", "/jobs/",
                              "/about-us/"})
              /\ ~Contains(combined_text, "trust hub")
              /\ ~Contains(combined_text, "security rating")
              /\ matched_keywords # <<>>
              /\ IsRealIncident(combined_text)
           THEN <<[title |-> title, snippet |-> snippet, url |-> url,
                   keywords |-> matched_keywords,
                   year |-> IF years = {} THEN "Unknown"
                            ELSE SubSeq(combined_text, first_year,
                                        first_year + 3),
                   vendor_name |-> vendor_name]>>
           ELSE <<>>
  IN Flatten([i \in DOMAIN results |-> IncidentOf(results[i])])

\* the results whose url is not empty and was not seen before
_deduplicate_results(results) ==
  SelectSeq([i \in DOMAIN results |->
               IF /\ Get(results[i], "url", "") # ""
                  /\ \A j \in 1..(i - 1) :
                       Get(results[j], "url", "")
                         # Get(results[i], "url", "")
               THEN results[i] ELSE None],
            LAMBDA result : result # None)

\* not vendor_name or not vendor_name.strip()
IsBlank(vendor_name) == Words(vendor_name) = {}

\* the five queries of search_vendor_security, in order
Queries(vendor_name) ==
  LET quoted == "\"" \o vendor_name \o "\" "
  IN <<quoted \o "(trust center OR security OR compliance)",
       quoted \o "(SOC 2 OR \"ISO 27001\" OR \"ISO 27018\")",
       quoted \o "(encryption OR \"data protection\" OR \"security features\")",
       quoted \o "(breach OR hacked OR \"data leak\") 2020..2026",
       quoted \o "(vulnerability OR CVE OR \"security flaw\")">>

\* WebSearchAgent.search_vendor_security on an agent with the given
\* search_results, where web[k] is what DuckDuckGo answers to the k-th
\* query: the field after the call, which is also the returned object, and
\* the queries that were sent
search_vendor_security(search_results, vendor_name, web) ==
  IF IsBlank(vendor_name)
  THEN [search_results |-> search_results, queries |-> <<>>]
  ELSE LET Found(k) ==
             _perform_search(web[k], Failed("unconfigured"),
                             Failed("unconfigured")).results
           all_controls ==
             _extract_control_information(Found(1), vendor_name)
             \o _extract_control_information(Found(2), vendor_name)
             \o _extract_control_information(Found(3), vendor_name)
           all_incidents ==
             _extract_incident_information(Found(4), vendor_name)
             \o _extract_incident_information(Found(5), vendor_name)
       IN [search_results |->
             [search_results EXCEPT
                !.controls = _deduplicate_results(all_controls),
                !.incidents = _deduplicate_results(all_incidents)],
           queries |-> Queries(vendor_name)]

\* WebSearchAgent.to_evidence_format: the new evidence_items
to_evidence_format(search_results) ==
  LET controls == Get(search_results, "controls", <<>>)
      incidents == Get(search_results, "incidents", <<>>)
  IN [i \in DOMAIN controls |->
        [text |-> controls[i].title \o ". " \o controls[i].snippet,
         keywords |-> controls[i].keywords,
         source |-> "Web Search: " \o controls[i].url,
         confidence |-> controls[i].confidence,
         type |-> "web_search_control"]]
     \o [i \in DOMAIN incidents |->
           [text |-> "[" \o incidents[i].year \o "] " \o incidents[i].title
                     \o ". " \o incidents[i].snippet,
            keywords |-> incidents[i].keywords,
            source |-> "Web Search: " \o incidents[i].url,
            confidence |-> "HIGH",
            type |-> "web_search_incident"]]

TrustPage ==
  [title |-> "Acme Trust Center",
   body |-> "Acme encryption and MFA with SOC 2 compliance",
   href |-> "https://acme.example/trust"]

AuditPage ==
  [title |-> "Audit of Initech", body |-> "yearly",
   href |-> "https://docs.example/Initech"]

BreachReport ==
  [title |-> "Acme was breached in 2023",
   body |-> "Attackers leaked customer data",
   href |-> "https://News.example/acme-breach"]

HackReport ==
  [title |-> "Initech confirms hack", body |-> "Incident of May 2021",
   href |-> "https://news.example/initech"]

HubPage ==
  [title |-> "Acme trust hub", body |-> "Acme suffered a breach",
   href |-> "https://hub.example/acme"]

\* what DuckDuckGo answers to the five queries
Webs ==
  {[k \in 1..5 |-> Failed("ImportError")],
   <<Answered(<<TrustPage, AuditPage>>),
     Answered(<<TrustPage>>),
     Failed("error"),
     Answered(<<BreachReport, HackReport>>),
     Answered(<<HubPage, BreachReport>>)>>}

AgentVendors == {"", "   ", "Acme", "Initech Ltd"}

\* agent.search_vendor_security(vendor_name)
SearchVendorSecurity(vendor_name, web) ==
  /\ call.number < MaxCalls
  /\ \E found \in
         {search_vendor_security(agent.search_results, vendor_name, web)} :
       /\ agent' = [agent EXCEPT !.search_results = found.search_results]
       /\ call' = Returned("search_vendor_security",
                           [vendor_name |-> vendor_name, web |-> web],
                           found)
  /\ UNCHANGED <<model, hashseed, questions, evidence_library, threshold,
                 question_mappings, mappings_arg, vendor_metadata,
                 web_search_results, risk_assessment, earlier, pc>>

\* agent.to_evidence_format(); the record of the call notes the vendor name
\* of the search before it
ToEvidenceFormat ==
  /\ call.number < MaxCalls
  /\ agent' = [agent EXCEPT
                 !.evidence_items = to_evidence_format(agent.search_results)]
  /\ call' = Returned("to_evidence_format",
                      [last_search |->
                         IF call.op = "search_vendor_security"
                         THEN call.args.vendor_name
                         ELSE Get(call.args, "last_search", "no search")],
                      to_evidence_format(agent.search_results))
  /\ UNCHANGED <<model, hashseed, questions, evidence_library, threshold,
                 question_mappings, mappings_arg, vendor_metadata,
                 web_search_results, risk_assessment, earlier, pc>>

AgentNext ==
  \/ \E vendor_name \in AgentVendors, web \in Webs :
       SearchVendorSecurity(vendor_name, web)
  \/ ToEvidenceFormat

SpecAgent == DocumentsInit /\ [][AgentNext]_vars

(***************************************************************************)
(* The Atlassian integration: vendor data from Jira tickets               *)
(***************************************************************************)
\* vendor_data before the first ticket
NewVendorData ==
  [vendor_name |-> "",
   risk_summary |-> <<>>,
   security_issues |-> <<>>,
   privacy_concerns |-> <<>>,
   compliance_status |-> <<>>,
   services_mentioned |-> <<>>,
   data_types_mentioned |-> <<>>,
   last_review_date |-> None,
   overall_risk_level |-> "UNKNOWN"]

\* a MEDIUM ticket that sets the level whatever it was
RiskLevelOfLastTicket(level, priority) ==
  IF priority \in {"HIGHEST", "HIGH", "CRITICAL"} THEN "HIGH"
  ELSE IF priority = "MEDIUM" THEN "MEDIUM" ELSE level

\* the risk level indicator of one ticket
RiskLevelAfter(level, priority) ==
  IF priority \in {"HIGHEST", "HIGH", "CRITICAL"} THEN "HIGH"
  ELSE IF priority = "MEDIUM" /\ level = "UNKNOWN" THEN "MEDIUM" ELSE level

\* one pass of the loop `for ticket in tickets`
AfterTicket(vendor_data, ticket) ==
  LET fields == Get(ticket, "fields", <<>>)
      summary == Get(fields, "summary", "")
      description == Get(fields, "description", "")
      text == Lower(summary \o " " \o description)
      key == Get(ticket, "key", None)
      status == Get(Get(fields, "status", <<>>), "name", "")
      labels == Get(fields, "labels", <<>>)
      priority == Upper(Get(Get(fields, "priority", <<>>), "name", ""))
  IN [vendor_data EXCEPT
        !.risk_summary =
          IF Contains(text, "risk")
          THEN Append(@, [ticket |-> key, summary |-> summary,
                          status |-> status,
                          priority |-> Get(Get(fields, "priority", <<>>),
                                           "name", "")])
          ELSE @,
        !.security_issues =
          IF AnyIn(text, {"vulnerability", "breach", "security", "exploit",
                          "cve"})
          THEN Append(@, [ticket |-> key, issue |-> summary,
                          status |-> status])
          ELSE @,
        !.privacy_concerns =
          IF AnyIn(text, {"privacy", "pii", "phi", "gdpr", "ccpa",
                          "personal data"})
          THEN Append(@, [ticket |-> key, concern |-> summary])
          ELSE @,
        !.compliance_status =
          IF AnyIn(text, {"soc 2", "iso 27001", "hipaa", "pci", "compliance"})
          THEN Append(@, [ticket |-> key, status |-> summary])
          ELSE @,
        !.services_mentioned =
          @ \o SelectSeq(labels,
                 LAMBDA label :
                   AnyIn(Lower(label), {"saas", "cloud", "api", "platform"})),
        !.overall_risk_level = RiskLevelAfter(@, priority)]

\* the lists without repetition that list(set(items)) can give
ListsOfSet(items) ==
  {list \in [1..Cardinality(Range(items)) -> Range(items)] :
     Range(list) = Range(items)}

\* vendor_data after the loop has handled tickets i..
RECURSIVE AfterTickets(_, _, _)
AfterTickets(vendor_data, tickets, i) ==
  IF i > Len(tickets) THEN vendor_data
  ELSE AfterTickets(AfterTicket(vendor_data, tickets[i]), tickets, i + 1)

\* the values _extract_rovo_data_from_tickets can return, one for each order
\* that the set of services can be listed in
_extract_rovo_data_from_tickets(tickets) ==
  LET vendor_data == AfterTickets(NewVendorData, tickets, 1)
  IN {[vendor_data EXCEPT !.services_mentioned = services] :
        services \in ListsOfSet(vendor_data.services_mentioned)}

\* search_vendor_tickets: [] without a URL and on any exception, otherwise
\* the issues of the response
search_vendor_tickets(jira) ==
  IF jira.status = "ok" THEN jira.hits ELSE <<>>

\* dict.update
Update(d, other) ==
  [key \in DOMAIN d \cup DOMAIN other |->
     IF key \in DOMAIN other THEN other[key] ELSE d[key]]

\* the values get_vendor_overview_from_jira can return when the two ticket
\* searches find the issues of first and of second
get_vendor_overview_from_jira(vendor_name, first, second) ==
  {Update([vendor_data EXCEPT !.vendor_name = vendor_name], rovo_data) :
     vendor_data \in
       _extract_rovo_data_from_tickets(search_vendor_tickets(first)),
     rovo_data \in
       _extract_rovo_data_from_tickets(search_vendor_tickets(second))}

Ticket(key, summary, description, priority, labels) ==
  [key |-> key,
   fields |-> [summary |-> summary, description |-> description,
               status |-> [name |-> "Open"],
               priority |-> [name |-> priority],
               labels |-> labels]]

Tickets ==
  {Ticket("VND-1", "Vendor risk review", "Annual review", "High",
          <<"saas", "billing">>),
   Ticket("VND-2", "Security breach follow-up", "", "Medium",
          <<"Cloud-hosting">>),
   Ticket("VND-3", "GDPR questionnaire", "PII handling", "Low", <<>>),
   Ticket("VND-4", "SOC 2 compliance report", "Risk accepted", "Highest",
          <<"saas">>),
   [key |-> "VND-5", fields |-> [summary |-> "Renewal"]],
   Ticket("VND-6", "CVE in gateway", "Exploit published", "Critical",
          <<"API", "saas">>)}

MaxTickets == 3

VendorNames == {"", "Acme", "Initech Ltd"}

JiraStates(tickets) ==
  {Failed("unconfigured"), Failed("error"), Answered(tickets)}

\* the call record of a method that is running: its local variables
Running(op, args, locals) == [locals |-> locals] @@ CallOf(op, args)

\* integration._extract_rovo_data_from_tickets(tickets) is entered
EnterExtract(tickets) ==
  /\ pc = "collect"
  /\ call' = Running("_extract_rovo_data_from_tickets",
                     [tickets |-> tickets],
                     [i |-> 1, vendor_data |-> NewVendorData])
  /\ pc' = "tickets"
  /\ UNCHANGED <<model, hashseed, questions, evidence_library, threshold,
                 question_mappings, mappings_arg, vendor_metadata,
                 web_search_results, risk_assessment, earlier, agent>>

\* the loop handles the next ticket
NextTicket ==
  /\ pc = "tickets"
  /\ call.locals.i <= Len(call.args.tickets)
  /\ call' = [call EXCEPT
                !.locals =
                  [i |-> @.i + 1,
                   vendor_data |->
                     AfterTicket(@.vendor_data, call.args.tickets[@.i])]]
  /\ UNCHANGED <<model, hashseed, questions, evidence_library, threshold,
                 question_mappings, mappings_arg, vendor_metadata,
                 web_search_results, risk_assessment, earlier, agent,
                 pc>>

\* the loop is over: the services are deduplicated and the data returned
ReturnExtract ==
  /\ pc = "tickets"
  /\ call.locals.i > Len(call.args.tickets)
  /\ \E services \in ListsOfSet(call.locals.vendor_data.services_mentioned) :
       call' = [result |->
                  [call.locals.vendor_data
                     EXCEPT !.services_mentioned = services]] @@ call
  /\ pc' = "extracted_tickets"
  /\ UNCHANGED <<model, hashseed, questions, evidence_library, threshold,
                 question_mappings, mappings_arg, vendor_metadata,
                 web_search_results, risk_assessment, earlier, agent>>

\* integration.get_vendor_overview_from_jira(vendor_name)
GetVendorOverviewFromJira(vendor_name, first, second) ==
  /\ pc = "collect"
  /\ \E vendor_data \in
         get_vendor_overview_from_jira(vendor_name, first, second) :
       call' = Returned("get_vendor_overview_from_jira",
                        [vendor_name |-> vendor_name,
                         first |-> first, second |-> second],
                        vendor_data)
  /\ pc' = "overview"
  /\ UNCHANGED <<model, hashseed, questions, evidence_library, threshold,
                 question_mappings, mappings_arg, vendor_metadata,
                 web_search_results, risk_assessment, earlier, agent>>

TicketsNext ==
  \/ /\ pc = "collect"
     /\ \E n \in 0..MaxTickets :
          \E tickets \in [1..n -> Tickets] :
            \/ EnterExtract(tickets)
            \/ \E vendor_name \in VendorNames :
                 \E first \in JiraStates(tickets) :
                   \E second \in {first, Failed("error")} :
                     GetVendorOverviewFromJira(vendor_name, first, second)
  \/ NextTicket
  \/ ReturnExtract

SpecTickets == DocumentsInit /\ [][TicketsNext]_vars

(***************************************************************************)
(* Properties of the extractor on one document                            *)
(***************************************************************************)
PageExtracted ==
  /\ call.op = "extract_all"
  /\ "written_from" \in DOMAIN call.args
  /\ call.args.parsed_documents[1].pages # <<>>

\* the number of security keywords that occur in the segment
KeywordHits(segment) ==
  Cardinality({k \in DOMAIN SECURITY_KEYWORDS :
                 Contains(Lower(segment), SECURITY_KEYWORDS[k])})

Statements ==
  SelectSeq(evidence_library, LAMBDA item : item.type = "control_statement")

\* C22: the segments of a text yield at most one item each, in order: none
\* for a segment that is shorter than 20 characters when trimmed or that
\* names no security keyword, otherwise one control_statement item with the
\* trimmed segment as text, rated medium iff more than one keyword matched
\* and low iff exactly one did; no text-derived item is rated high, so every
\* high item of the library is a table_entry or a certification
C22_TextItems ==
  PageExtracted =>
    LET Kept(segment) ==
          Len(Strip(segment)) >= 20 /\ KeywordHits(segment) > 0
        kept == SelectSeq(call.args.written_from, Kept)
    IN /\ Len(Statements) = Len(kept)
       /\ Len(Statements) <= Len(call.args.written_from)
       /\ \A i \in DOMAIN Statements :
            /\ Statements[i].text = Strip(kept[i])
            /\ Statements[i].confidence = "medium" <=> KeywordHits(kept[i]) > 1
            /\ Statements[i].confidence = "low" <=> KeywordHits(kept[i]) = 1
            /\ Statements[i].confidence # "high"
       /\ \A i \in DOMAIN evidence_library :
            evidence_library[i].confidence = "high" =>
              evidence_library[i].type \in {"table_entry", "certification"}

\* a page with a dropped segment, a statement of three or more keywords
\* rated medium, a statement rated low and a certification rated high
C22_Witness ==
  /\ PageExtracted
  /\ Len(Statements) < Len(call.args.written_from)
  /\ \E i \in DOMAIN Statements :
       /\ Len(Statements[i].keywords) >= 3
       /\ Statements[i].confidence = "medium"
  /\ \E i \in DOMAIN Statements : Statements[i].confidence = "low"
  /\ \E i \in DOMAIN evidence_library :
       /\ evidence_library[i].type = "certification"
       /\ evidence_library[i].confidence = "high"

TableExtracted ==
  /\ call.op = "extract_all"
  /\ "written_from" \in DOMAIN call.args
  /\ call.args.parsed_documents[1].tables # <<>>

\* C23: the first row of a table is its header and yields no item, a table
\* of fewer than two rows yields nothing, and every later row yields, in
\* order, exactly one item iff its non-empty cells joined by spaces match a
\* security keyword: a table_entry rated high with that text, whose row_data
\* maps each header to the row's value when header and row are equally long
\* and is None otherwise
C23_TableItems ==
  TableExtracted =>
    LET table_data == call.args.written_from
        Matching(r) == KeywordHits(RowText(table_data[r])) > 0
        matching == {r \in 2..Len(table_data) : Matching(r)}
        \* the row of the i-th item: i - 1 matching rows lie before it
        RowOf(i) ==
          CHOOSE r \in matching :
            Cardinality({q \in matching : q < r}) = i - 1
    IN /\ Len(evidence_library) = Cardinality(matching)
       /\ Len(table_data) < 2 => evidence_library = <<>>
       /\ \A i \in DOMAIN evidence_library :
            LET item == evidence_library[i]
                row == table_data[RowOf(i)]
                headers == table_data[1]
            IN /\ item.type = "table_entry"
               /\ item.confidence = "high"
               /\ item.text = RowText(row)
               /\ Len(headers) = Len(row) =>
                    /\ DOMAIN item.row_data = Range(headers)
                    /\ \A c \in DOMAIN headers :
                         item.row_data[headers[c]] = row[c]
               /\ Len(headers) # Len(row) => item.row_data = None

\* the table of the example with its header, a row that
\* names none and a row longer than the header: two items, the first with
\* the header -> value mapping, the second without one
C23_Witness ==
  /\ TableExtracted
  /\ call.args.written_from =
       <<<<"Control", "Status">>, <<"Encryption", "Implemented">>,
         <<"Lunch", "Daily">>, <<"Data backup", "", "Weekly">>>>
  /\ Len(evidence_library) = 2
  /\ evidence_library[1].row_data =
       [h \in {"Control", "Status"} |->
          IF h = "Status" THEN "Implemented" ELSE "Encryption"]
  /\ evidence_library[2].text = "Data backup Weekly"
  /\ evidence_library[2].row_data = None

(***************************************************************************)
(* Properties of the similarity without an encoder                        *)
(***************************************************************************)
Scored == call.op = "calculate_similarity"

\* the distinct case-folded tokens among the given ones
Folded(tokens) == {Lower(tokens[i]) : i \in DOMAIN tokens} \ {""}

\* C24: without an encoder the similarity of a question and an evidence
\* text is the number of distinct case-folded question tokens that are also
\* evidence tokens over the number of distinct question tokens, and 0 for a
\* question without tokens; it lies in [0, 1], and it is 1 iff the question
\* has a token and every question token occurs in the evidence
C24_LexicalSimilarity ==
  Scored =>
    LET question_words == Folded(call.args.question_tokens)
        evidence_words == Folded(call.args.evidence_tokens)
        similarity == call.result
    IN /\ similarity =
            IF question_words = {} THEN <<0, 1>>
            ELSE Ratio(Cardinality(question_words \cap evidence_words),
                       Cardinality(question_words))
       /\ 0 <= similarity[1] /\ similarity[1] <= similarity[2]
       /\ question_words = {} => similarity[1] = 0
       /\ similarity[1] = similarity[2] <=>
            question_words # {} /\ question_words \subseteq evidence_words

\* a question of two spellings of one word and another word, scored against
\* an evidence text with one of them: one of two distinct tokens
C24_Witness ==
  /\ Scored
  /\ model = "None"
  /\ call.args.question_tokens = <<"Data", "mfa">>
  /\ call.args.evidence_tokens = <<"", "data">>
  /\ call.result = <<1, 2>>

\* C24 as stated: the similarity is 1 iff every question token occurs in the
\* evidence, also for a question that has no token
C24_OneIffAllTokensOccur ==
  Scored =>
    (call.result[1] = call.result[2] <=>
       Folded(call.args.question_tokens)
         \subseteq Folded(call.args.evidence_tokens))

(***************************************************************************)
(* Properties of the search providers                                     *)
(***************************************************************************)
Searched == call.op = "_perform_search"

\* the provider has nothing to deliver: it is unavailable or its list is
\* empty
Delivers(provider) == provider.status = "ok" /\ provider.hits # <<>>

\* C25: _perform_search never raises; when DuckDuckGo delivers nothing,
\* because its list is empty or because it failed, Google and then Bing are
\* asked, the first list that is not empty is returned, and the result is
\* empty only when no provider delivers anything
C25_FallbackOnNoResults ==
  Searched =>
    LET duckduckgo == call.args.duckduckgo
        google == call.args.google
        bing == call.args.bing
        results == call.result.results
        asked == call.result.asked
    IN /\ ~Delivers(duckduckgo) =>
            /\ Len(asked) >= 2 /\ asked[2] = "google"
            /\ ~Delivers(google) => asked = <<"duckduckgo", "google", "bing">>
            /\ Delivers(google) => results = _search_google_custom(google).value
            /\ ~Delivers(google) /\ Delivers(bing) =>
                 results = _search_bing(bing).value
       /\ results = <<>> =>
            ~Delivers(duckduckgo) /\ ~Delivers(google) /\ ~Delivers(bing)

(***************************************************************************)
(* Properties of the reachable severities                                 *)
(***************************************************************************)
LowImpact == " - Low impact but requires monitoring"

EndsWith(s, suffix) ==
  /\ Len(s) >= Len(suffix)
  /\ SubSeq(s, Len(s) - Len(suffix) + 1, Len(s)) = suffix

StartsWith(s, prefix) ==
  /\ Len(s) >= Len(prefix)
  /\ SubSeq(s, 1, Len(prefix)) = prefix

\* C26: in every assessment every risk is HIGH or MEDIUM, every threat is
\* HIGH or MEDIUM, summary.low_risks is 0, every mitigation has priority
\* 'Critical', and no threat carries the low-impact sentence
C26_ReachableSeverities ==
  Assessed =>
    LET risks == risk_assessment.risks
        threats == risk_assessment.threat_model.threats
        mitigations == risk_assessment.threat_model.mitigations_needed
    IN /\ \A r \in DOMAIN risks : risks[r].severity \in {"HIGH", "MEDIUM"}
       /\ \A t \in DOMAIN threats :
            /\ threats[t].severity \in {"HIGH", "MEDIUM"}
            /\ ~EndsWith(threats[t].potential_impact, LowImpact)
       /\ risk_assessment.summary.low_risks = 0
       /\ \A j \in DOMAIN mitigations : mitigations[j].priority = "Critical"

\* an assessment with a HIGH and a MEDIUM risk, the threat of an incident
\* and mitigations
C26_Witness ==
  /\ Assessed
  /\ \E r, q \in DOMAIN risk_assessment.risks :
       /\ risk_assessment.risks[r].severity = "HIGH"
       /\ risk_assessment.risks[q].severity = "MEDIUM"
  /\ \E t \in DOMAIN risk_assessment.threat_model.threats :
       risk_assessment.threat_model.threats[t].category = "Historical Incident"
  /\ Len(risk_assessment.threat_model.mitigations_needed) >= 2
  /\ risk_assessment.summary.medium_risks > 0

\* C27: the affected_questions of every risk are, in input order, the ids of
\* exactly the questions of its category whose confidence is LOW or
\* NOT_FOUND; the list is not empty, its length is the count that the
\* description gives before the slash, and it is more than half of the
\* number of questions of the category
C27_AffectedQuestions ==
  Assessed =>
    \A r \in DOMAIN risk_assessment.risks :
      LET risk == risk_assessment.risks[r]
          i == CHOOSE c \in DOMAIN RISK_CATEGORIES :
                 CategoryTitle(c) = risk.category
          lows == LowMembersOf(i)
          n == Cardinality(MembersOf(i))
          affected == risk.affected_questions
      IN /\ affected =
              [j \in 1..Cardinality(lows) |->
                 mappings_arg[NthOf(lows, j)].question_id]
         /\ \A k \in MembersOf(i) :
              mappings_arg[k].confidence \in {"HIGH", "MEDIUM"} =>
                \A j \in DOMAIN affected :
                  affected[j] # mappings_arg[k].question_id
         /\ affected # <<>>
         /\ StartsWith(risk.description,
                       "Insufficient evidence for " \o IntToStr(Len(affected))
                       \o "/" \o IntToStr(n) \o " ")
         /\ 2 * Len(affected) > n

\* a risk of a category with three questions that lists the first and the
\* third of them and leaves out the second, whose confidence is HIGH
C27_Witness ==
  /\ Assessed
  /\ \E r \in DOMAIN risk_assessment.risks :
       \E i \in DOMAIN RISK_CATEGORIES :
         /\ CategoryTitle(i) = risk_assessment.risks[r].category
         /\ Cardinality(MembersOf(i)) = 3
         /\ Len(risk_assessment.risks[r].affected_questions) = 2
         /\ \E k \in MembersOf(i) \ LowMembersOf(i) :
              /\ \E a \in LowMembersOf(i) : a < k
              /\ \E b \in LowMembersOf(i) : b > k

(***************************************************************************)
(* Properties of the vendor data from Jira tickets                        *)
(***************************************************************************)
Extracting == call.op = "_extract_rovo_data_from_tickets"

\* overall_risk_level as the running or the returned call has it
RiskLevel ==
  IF "result" \in DOMAIN call
  THEN call.result.overall_risk_level
  ELSE call.locals.vendor_data.overall_risk_level

RiskRank(level) ==
  CASE level = "UNKNOWN" -> 0
    [] level = "MEDIUM" -> 1
    [] level = "HIGH" -> 2

\* the upper-cased priority names of the first n tickets
PrioritiesOf(tickets, n) ==
  {Upper(Get(Get(Get(tickets[k], "fields", <<>>), "priority", <<>>),
             "name", "")) : k \in 1..n}

\* the level that a set of priorities calls for
LevelFor(priorities) ==
  IF priorities \cap {"HIGHEST", "HIGH", "CRITICAL"} # {} THEN "HIGH"
  ELSE IF "MEDIUM" \in priorities THEN "MEDIUM" ELSE "UNKNOWN"

\* C28: while the tickets are processed one after another the
\* overall_risk_level never decreases in the order UNKNOWN < MEDIUM < HIGH;
\* after any number of tickets, and so in the returned data, it is HIGH iff
\* one of them has priority HIGHEST, HIGH or CRITICAL, else MEDIUM iff one
\* has priority MEDIUM, else UNKNOWN, which depends on the set of the
\* priorities only, and it is UNKNOWN for no tickets
C28_RiskLevelNeverDecreases ==
  /\ [][Extracting /\ Extracting' /\ pc = "tickets"
          => RiskRank(RiskLevel') >= RiskRank(RiskLevel)]_vars
  /\ [](Extracting /\ pc = "tickets" =>
          RiskLevel = LevelFor(PrioritiesOf(call.args.tickets,
                                            call.locals.i - 1)))
  /\ [](Extracting /\ pc = "extracted_tickets" =>
          /\ RiskLevel = LevelFor(PrioritiesOf(call.args.tickets,
                                               Len(call.args.tickets)))
          /\ call.args.tickets = <<>> => RiskLevel = "UNKNOWN")

\* the loop has handled a High ticket and then a Medium ticket, and the
\* level is still HIGH
C28_Witness ==
  /\ Extracting
  /\ pc = "tickets"
  /\ call.locals.i = 3
  /\ call.args.tickets[1].fields.priority.name = "High"
  /\ call.args.tickets[2].fields.priority.name = "Medium"
  /\ RiskLevel = "HIGH"

\* C29: the vendor data that get_vendor_overview_from_jira returns carries
\* the requested vendor_name, whatever tickets the search returns
C29_VendorNameKept ==
  call.op = "get_vendor_overview_from_jira" =>
    call.result.vendor_name = call.args.vendor_name

(***************************************************************************)
(* Properties of the web search agent                                     *)
(***************************************************************************)
BlankNames == {"", "   "}

\* C30: whatever searches went before, search_vendor_security with an empty
\* or blank vendor name sends no query and returns no controls and no
\* incidents, and a to_evidence_format that follows it converts nothing
C30_BlankNameFindsNothing ==
  /\ call.op = "search_vendor_security"
       /\ call.args.vendor_name \in BlankNames =>
         /\ call.result.queries = <<>>
         /\ call.result.search_results.controls = <<>>
         /\ call.result.search_results.incidents = <<>>
  /\ call.op = "to_evidence_format"
       /\ call.args.last_search \in BlankNames =>
         call.result = <<>>

====
